---- MODULE Spec2Model ----
(***************************************************************************)
(* Model of the claim processing pipeline of CrossInsure AI:               *)
(*   app/services/claim_service.py      (ClaimProcessingService)           *)
(*   app/services/embedding_service.py  (Embedding/Fingerprint/Similarity) *)
(*   app/services/gemini_fraud_analyzer.py (GeminiFraudAnalyzer)           *)
(*   app/services/image_service.py      (validation, blob storage)         *)
(*                                                                         *)
(* Numbers.  Similarities are integers in units of 1/10000, overall        *)
(* similarities in units of 1/1000000 (a similarity times a weight in      *)
(* hundredths), risk scores in units of 1/100, severity in units of 1/1000.*)
(* Digests.  md5 and sha256 are tables of the real digests of the inputs   *)
(* the model draws from.  An embedding vector is its length `dim` and the  *)
(* period `v` that the code repeats to that length (the sha256 digest is   *)
(* cycled by `i % len(data_hash)`); the model keeps the first four bytes   *)
(* of the digest, each reduced to its high nibble (units of 1/16).         *)
(* Rows.  Every row carries `commit`, the number of the commit that made   *)
(* it durable, and `txn`, the invocation whose session wrote it; a claim   *)
(* row also carries `submitted_after`, the number of commits made before   *)
(* it was created.  No operation reads these three fields.                 *)
(* Scheduling.  The invocations are coroutines of one event loop: between  *)
(* two awaits that suspend (a flush, a query, a commit, a file written in  *)
(* a thread) a coroutine runs alone; `running` is the one that does.       *)
(***************************************************************************)
EXTENDS Integers, Sequences, FiniteSets, TLC

VARIABLES
    geminiConfigured,  \* settings.gemini_api_key is set (process-wide)
    dbClaims,          \* committed rows of table claims
    dbFingerprints,    \* committed rows of table incident_fingerprints
    dbResults,         \* committed rows of table fraud_analysis_results
    dbImages,          \* committed rows of table claim_images
    blobs,             \* files written below settings.image_storage_path
    commits,           \* number of commits the store has performed
    nextClaimId,       \* next primary key of claims
    nextFpId,          \* next primary key of incident_fingerprints
    inv,               \* per invocation of submit_and_analyze_claim: its locals
    pending,           \* per invocation: rows flushed in its open transaction
    running,           \* the invocation that holds the event loop, 0 when none does
    arg,               \* input of a pure function under test
    out                \* its result

storeVars == <<dbClaims, dbFingerprints, dbResults, dbImages, commits, nextFpId>>
pipelineVars == <<geminiConfigured, dbClaims, dbFingerprints, dbResults, dbImages,
                  blobs, commits, nextClaimId, nextFpId, inv, pending, running>>
probeVars == <<arg, out>>
vars == <<geminiConfigured, dbClaims, dbFingerprints, dbResults, dbImages,
          blobs, commits, nextClaimId, nextFpId, inv, pending, running, arg, out>>

-----------------------------------------------------------------------------
(* Bounds of the model *)

MaxInv == 2            \* invocations of submit_and_analyze_claim in one behaviour

(* Program constants *)

SimScale == 10000          \* 1.0 as a similarity
ScoreScale == 100          \* 1.0 as a risk score
SeverityScale == 1000      \* 1.0 as a severity score
FallbackDim == 768         \* _generate_fallback_embedding(dim=768)
PlaceholderDim == 128      \* [0.5] * 128
HalfComponent == 8         \* 0.5 in units of 1/16
MaxImageBytes == 10485760  \* 10 * 1024 * 1024
HashLen == 16              \* hexdigest()[:16]
WeightText == 25
WeightImage == 35
WeightSpatial == 20
WeightTemporal == 20
MatchThreshold == 300000   \* overall_similarity > 0.3
ScanLimit == 10            \* limit=10

Min(a, b) == IF a < b THEN a ELSE b
Max(a, b) == IF a > b THEN a ELSE b

-----------------------------------------------------------------------------
(* Input domains *)

LocationZone == {"zone_a", "zone_b", "zone_c", "zone_d", "zone_e"}
IncidentType == {"motor_damage", "collision", "theft", "property_damage",
                 "fire", "water_damage", "other"}
FraudRiskLevel == {"LOW", "MEDIUM", "HIGH", "CRITICAL"}
FraudRecommendation == {"PROCEED", "HOLD", "INVESTIGATE"}

\* datetimes: [y, mo, d, h, mi, dow]  (dow as strftime("%A"), mo as a number)
D1 == [y |-> 2024, mo |-> 1, d |-> 30, h |-> 14, mi |-> 0, dow |-> "Tuesday"]
D2 == [y |-> 2024, mo |-> 1, d |-> 30, h |-> 14, mi |-> 45, dow |-> "Tuesday"]
D3 == [y |-> 2024, mo |-> 1, d |-> 31, h |-> 9, mi |-> 0, dow |-> "Wednesday"]
W1start == [y |-> 2024, mo |-> 1, d |-> 30, h |-> 8, mi |-> 0, dow |-> "Tuesday"]
W1end == [y |-> 2024, mo |-> 1, d |-> 31, h |-> 18, mi |-> 0, dow |-> "Wednesday"]
W2start == [y |-> 2024, mo |-> 1, d |-> 30, h |-> 13, mi |-> 0, dow |-> "Tuesday"]
W2end == [y |-> 2024, mo |-> 1, d |-> 30, h |-> 15, mi |-> 0, dow |-> "Tuesday"]

\* damage descriptions, by name; the texts are
\*   A     "Rear bumper dented in parking lot"
\*   B     "Vehicle collided with another car at intersection. Significant
\*          front-end damage, severe and extensive."
\*   C     "Total loss: car destroyed and crushed after a major fire"
\*   E49   "y" * 49     E50  "y" * 50     E2000  "x" * 2000     L  "x" * 2001
Descriptions == {"A", "B", "C", "E49", "E50", "E2000", "L"}

DescLen(desc) ==
    CASE desc = "A" -> 33
      [] desc = "B" -> 102
      [] desc = "C" -> 56
      [] desc = "E49" -> 49
      [] desc = "E50" -> 50
      [] desc = "E2000" -> 2000
      [] desc = "L" -> 2001

\* number of the high_severity_words that occur in the lower-cased text
DescKeywords(desc) == IF desc = "B" THEN 2 ELSE IF desc = "C" THEN 5 ELSE 0

\* image payloads, by name:
\*   png, jpg  well-formed PNG / JPEG files          gif  a GIF file
\*   bad       bytes that PIL cannot open            big  a PNG of 10 MB + 8 bytes
Images == {"png", "jpg", "gif", "bad", "big"}

ImageSize(img) ==
    CASE img = "png" -> 17
      [] img = "jpg" -> 14
      [] img = "gif" -> 13
      [] img = "bad" -> 20
      [] img = "big" -> 10485768

\* Image.open(...).format; "unidentified" when Image.open raises
ImageFormat(img) ==
    CASE img = "png" -> "PNG"
      [] img = "jpg" -> "JPEG"
      [] img = "gif" -> "GIF"
      [] img = "bad" -> "unidentified"
      [] img = "big" -> "PNG"

\* users: [id, organization_name]; "" is a missing organization name
Users == { [id |-> 1, organization_name |-> "Acme"],
           [id |-> 2, organization_name |-> "Beta"],
           [id |-> 3, organization_name |-> ""],
           [id |-> 4, organization_name |-> ""] }

-----------------------------------------------------------------------------
(* Digest tables: hashlib.md5(...).hexdigest()[:16] as 16 hex digits, and the
   high nibbles of the first four bytes of hashlib.sha256(...).digest() *)

Md5Hex16(s) ==
    CASE s = "zone_a" -> <<0, 10, 0, 10, 5, 10, 6, 1, 8, 12, 5, 4, 12, 8, 5, 6>>
      [] s = "zone_b" -> <<0, 10, 1, 0, 6, 2, 9, 1, 11, 7, 4, 4, 13, 4, 3, 9>>
      [] s = "zone_c" -> <<13, 12, 2, 12, 7, 4, 1, 7, 14, 1, 13, 7, 13, 3, 12, 10>>
      [] s = "zone_d" -> <<11, 14, 5, 7, 5, 13, 7, 6, 14, 9, 11, 1, 6, 11, 10, 2>>
      [] s = "zone_e" -> <<4, 12, 1, 12, 3, 0, 15, 7, 7, 9, 4, 5, 7, 5, 8, 4>>

\* the temporal string f"{day_of_week}_{month}_{hour_window}h_{day_of_month}d" is
\* the tuple <<day_of_week, month, hour_window, day_of_month>>
Md5Hex16Temporal(t) ==
    CASE t = <<"Tuesday", 1, 12, 30>> ->      \* Tuesday_January_12h_30d
             <<6, 6, 7, 0, 15, 13, 1, 14, 7, 11, 9, 7, 15, 0, 13, 8>>
      [] t = <<"Wednesday", 1, 8, 31>> ->     \* Wednesday_January_8h_31d
             <<14, 8, 1, 3, 14, 11, 8, 2, 3, 15, 10, 7, 15, 12, 11, 6>>
      [] t = <<"Tuesday", 1, 8, 30>> ->       \* Tuesday_January_8h_30d
             <<0, 9, 11, 9, 11, 5, 13, 13, 8, 10, 10, 6, 2, 13, 10, 13>>
      [] t = <<"Tuesday", 1, 16, 30>> ->      \* Tuesday_January_16h_30d
             <<1, 15, 2, 1, 14, 14, 5, 2, 13, 3, 8, 7, 6, 3, 5, 8>>

Sha256Nibbles(data) ==
    CASE data = "A" -> <<0, 8, 9, 13>>
      [] data = "B" -> <<2, 9, 8, 14>>
      [] data = "C" -> <<4, 1, 1, 2>>
      [] data = "E49" -> <<11, 14, 10, 13>>
      [] data = "E50" -> <<7, 0, 10, 6>>
      [] data = "E2000" -> <<5, 0, 0, 10>>
      [] data = "L" -> <<9, 2, 9, 12>>
      [] data = "png" -> <<14, 11, 11, 10>>
      [] data = "jpg" -> <<4, 14, 3, 6>>
      [] data = "gif" -> <<7, 9, 10, 0>>
      [] data = "bad" -> <<9, 2, 0, 7>>
      [] data = "big" -> <<1, 4, 4, 2>>

-----------------------------------------------------------------------------
(* image_service.py *)

AllowedFormats == {"JPEG", "PNG", "TIFF", "BMP"}

\* ImageProcessingService.validate_image: is_valid
ValidateImage(img) ==
    IF ImageSize(img) > MaxImageBytes
    THEN FALSE
    ELSE ImageFormat(img) \in AllowedFormats

-----------------------------------------------------------------------------
(* embedding_service.py: EmbeddingService *)

NoVec == [dim |-> 0, v |-> <<>>]

\* EmbeddingService._generate_fallback_embedding(data, dim=768)
FallbackEmbedding(data) == [dim |-> FallbackDim, v |-> Sha256Nibbles(data)]

\* [0.5] * 128
PlaceholderEmbedding ==
    [dim |-> PlaceholderDim,
     v |-> <<HalfComponent, HalfComponent, HalfComponent, HalfComponent>>]

\* vectors the embedding provider may answer with (it is an external service)
ProviderVecs == { [dim |-> 768, v |-> <<3, 1, 4, 1>>] }

\* what one call of the provider does: it raises, or answers with a vector
EmbedOutcomes == {[kind |-> "raise", vec |-> NoVec]} \cup
                 {[kind |-> "ok", vec |-> pv] : pv \in ProviderVecs}

\* EmbeddingService.generate_text_embedding / generate_image_embedding:
\* `client` is gemini_client, `outcome` what the provider call does
GenerateEmbedding(data, client, outcome) ==
    IF client
    THEN IF outcome.kind = "raise" THEN FallbackEmbedding(data) ELSE outcome.vec
    ELSE FallbackEmbedding(data)

\* generate_text_embedding / generate_image_embedding asking the provider
\* again when its first answer is an exception
GenerateEmbeddingRetrying(data, client, answers) ==
    IF ~client THEN [embedding |-> FallbackEmbedding(data), attempts |-> 0]
    ELSE IF answers[1].kind = "raise"
         THEN [embedding |-> GenerateEmbedding(data, client, answers[2]), attempts |-> 2]
         ELSE [embedding |-> answers[1].vec, attempts |-> 1]

\* generate_text_embedding / generate_image_embedding with the requests they
\* send: `answers` is what the provider does at the first, second, ... request
\* for this input; the try block sends one and the except clause none
GenerateEmbeddingCall(data, client, answers) ==
    [embedding |-> GenerateEmbedding(data, client, answers[1]),
     attempts |-> IF client THEN 1 ELSE 0]

-----------------------------------------------------------------------------
(* embedding_service.py: FingerprintService *)

\* the fingerprint of zone_a, whatever the zone
SpatialFingerprintOfPrefix(location_zone) == Md5Hex16("zone_a")

\* FingerprintService.generate_spatial_fingerprint
GenerateSpatialFingerprint(location_zone) == Md5Hex16(location_zone)

\* generate_temporal_fingerprint hashing the features of the window start
GenerateTemporalFingerprintOfWindow(incident_date, time_window_start, time_window_end) ==
    LET day_of_week == time_window_start.dow
        month == time_window_start.mo
        hour_window == (time_window_start.h \div 4) * 4
        day_of_month == time_window_start.d
    IN  Md5Hex16Temporal(<<day_of_week, month, hour_window, day_of_month>>)

\* FingerprintService.generate_temporal_fingerprint
GenerateTemporalFingerprint(incident_date, time_window_start, time_window_end) ==
    LET day_of_week == incident_date.dow
        month == incident_date.mo
        hour_window == (incident_date.h \div 4) * 4
        day_of_month == incident_date.d
    IN  Md5Hex16Temporal(<<day_of_week, month, hour_window, day_of_month>>)

\* FingerprintService.calculate_damage_severity_score, in units of 1/1000
\* the three contributions added without any cap
SeverityUncapped(damage_description, image_count) ==
    DescLen(damage_description) + image_count * 100
        + DescKeywords(damage_description) * 200

CalculateDamageSeverityScore(damage_description, image_count) ==
    LET fromLength == Min(DescLen(damage_description), 300)
        fromImages == Min(image_count * 100, 300)
        fromWords == Min(DescKeywords(damage_description) * 200, 400)
    IN  Min(fromLength + fromImages + fromWords, SeverityScale)

-----------------------------------------------------------------------------
(* embedding_service.py: SimilarityService *)

RECURSIVE Dot(_, _)
Dot(a, b) == IF a = <<>> THEN 0 ELSE Head(a) * Head(b) + Dot(Tail(a), Tail(b))

\* floor of the square root of x, for lo * lo <= x < hi * hi
RECURSIVE ISqrtIn(_, _, _)
ISqrtIn(lo, hi, x) ==
    IF hi - lo <= 1 THEN lo
    ELSE LET mid == (lo + hi) \div 2
         IN  IF mid * mid <= x THEN ISqrtIn(mid, hi, x) ELSE ISqrtIn(lo, mid, x)

ISqrt(x) == ISqrtIn(0, 46340, x)

\* np.dot raises ValueError for vectors of different lengths
CosineRaises(vec1, vec2) == vec1.dim # vec2.dim

\* the cosine itself, cut at 0 and not remapped to [0, 1]
CosineNotRemapped(vec1, vec2) ==
    LET dot_product == Dot(vec1.v, vec2.v)
        norm1sq == Dot(vec1.v, vec1.v)
        norm2sq == Dot(vec2.v, vec2.v)
    IN  IF norm1sq = 0 \/ norm2sq = 0
        THEN 0
        ELSE Max(0, (dot_product * SimScale) \div ISqrt(norm1sq * norm2sq))

\* SimilarityService.cosine_similarity
CosineSimilarity(vec1, vec2) ==
    LET dot_product == Dot(vec1.v, vec2.v)
        norm1sq == Dot(vec1.v, vec1.v)
        norm2sq == Dot(vec2.v, vec2.v)
    IN  IF norm1sq = 0 \/ norm2sq = 0
        THEN 0
        ELSE LET similarity == (dot_product * SimScale) \div ISqrt(norm1sq * norm2sq)
             IN  Max(0, (similarity + SimScale) \div 2)

RECURSIVE Differences(_, _)
Differences(h1, h2) ==
    IF h1 = <<>> THEN 0
    ELSE (IF Head(h1) # Head(h2) THEN 1 ELSE 0) + Differences(Tail(h1), Tail(h2))

\* the normalized Hamming distance proper: the fraction of differing positions
HammingDifferingFraction(hash1, hash2) ==
    IF Len(hash1) # Len(hash2)
    THEN 0
    ELSE (Differences(hash1, hash2) * SimScale) \div Len(hash1)

\* SimilarityService.hamming_distance (a similarity, despite its name)
HammingDistance(hash1, hash2) ==
    IF Len(hash1) # Len(hash2)
    THEN 0
    ELSE SimScale - (Differences(hash1, hash2) * SimScale) \div Len(hash1)

\* the weighted sum with the temporal component taken as a distance
OverallTemporalDistance(text_sim, image_sim, spatial_sim, temporal_sim) ==
    text_sim * WeightText + image_sim * WeightImage +
    spatial_sim * WeightSpatial + (SimScale - temporal_sim) * WeightTemporal

\* the weighted overall similarity, in units of 1/1000000
OverallSimilarity(text_sim, image_sim, spatial_sim, temporal_sim) ==
    text_sim * WeightText + image_sim * WeightImage +
    spatial_sim * WeightSpatial + temporal_sim * WeightTemporal

\* user.organization_name or "Unknown", for the row of table users with this id
UserById(user_id) == CHOOSE u \in Users : u.id = user_id

OrganizationName(user) ==
    IF user.organization_name = "" THEN "Unknown" ELSE user.organization_name

ClaimById(claimRows, claim_id) == CHOOSE c \in claimRows : c.id = claim_id

\* result.scalars().all() of the select ... join ... join in find_similar_incidents:
\* the fingerprints whose claim is a row too, in primary-key order
RECURSIVE RowsById(_)
RowsById(rows) ==
    IF rows = {} THEN <<>>
    ELSE LET first == CHOOSE r \in rows : \A q \in rows : r.id <= q.id
         IN  <<first>> \o RowsById(rows \ {first})

Historical(fpRows, claimRows) ==
    RowsById({f \in fpRows : \E c \in claimRows : c.id = f.claim_id})

\* one pass of the loop body of find_similar_incidents: the record appended to
\* `matches` for `incident`
MatchRecord(incident, claim, new_text_embedding, new_image_embedding, spatial_fingerprint, temporal_fingerprint) ==
    LET text_sim == CosineSimilarity(new_text_embedding, incident.text_embedding)
        image_sim == CosineSimilarity(new_image_embedding, incident.image_embedding)
        spatial_sim == HammingDistance(spatial_fingerprint, incident.spatial_fingerprint)
        temporal_sim == HammingDistance(temporal_fingerprint, incident.temporal_fingerprint)
    IN  [fingerprint_id |-> incident.id,
         overall_similarity |-> OverallSimilarity(text_sim, image_sim, spatial_sim, temporal_sim),
         text_similarity |-> text_sim,
         image_similarity |-> image_sim,
         spatial_similarity |-> spatial_sim,
         temporal_similarity |-> temporal_sim,
         incident_type |-> incident.incident_type_code,
         incident_date |-> claim.incident_date_approx,
         claim_reference_id |-> claim.claim_reference_id,
         organization_name |-> OrganizationName(UserById(claim.user_id)),
         location_zone |-> claim.location_zone]

\* the comparison of one stored record raises (and the record is skipped)
CompareRaises(incident, new_text_embedding, new_image_embedding) ==
    \/ CosineRaises(new_text_embedding, incident.text_embedding)
    \/ CosineRaises(new_image_embedding, incident.image_embedding)

\* overall_similarity >= 0.3
QualifiesFromThreshold(m) == m.overall_similarity >= MatchThreshold

\* overall_similarity > 0.3
Qualifies(m) == m.overall_similarity > MatchThreshold

\* the scan given up at the first record whose comparison raises
RECURSIVE ScanUntilFailure(_, _, _, _, _, _)
ScanUntilFailure(historical, claimRows, new_text_embedding, new_image_embedding, spatial_fingerprint, temporal_fingerprint) ==
    IF historical = <<>> THEN <<>>
    ELSE LET incident == Head(historical)
             rest == ScanUntilFailure(Tail(historical), claimRows, new_text_embedding,
                                      new_image_embedding, spatial_fingerprint,
                                      temporal_fingerprint)
             m == MatchRecord(incident, ClaimById(claimRows, incident.claim_id),
                              new_text_embedding, new_image_embedding,
                              spatial_fingerprint, temporal_fingerprint)
         IN  IF CompareRaises(incident, new_text_embedding, new_image_embedding)
             THEN <<>>
             ELSE IF Qualifies(m) THEN <<m>> \o rest ELSE rest

RECURSIVE ScanMatches(_, _, _, _, _, _)
ScanMatches(historical, claimRows, new_text_embedding, new_image_embedding, spatial_fingerprint, temporal_fingerprint) ==
    IF historical = <<>> THEN <<>>
    ELSE LET incident == Head(historical)
             rest == ScanMatches(Tail(historical), claimRows, new_text_embedding,
                                 new_image_embedding, spatial_fingerprint,
                                 temporal_fingerprint)
             m == MatchRecord(incident, ClaimById(claimRows, incident.claim_id),
                              new_text_embedding, new_image_embedding,
                              spatial_fingerprint, temporal_fingerprint)
         IN  IF CompareRaises(incident, new_text_embedding, new_image_embedding)
             THEN rest
             ELSE IF Qualifies(m) THEN <<m>> \o rest ELSE rest

\* matches.sort(key=overall_similarity, reverse=True): a stable sort
RECURSIVE InsertDesc(_, _)
InsertDesc(sorted, m) ==
    IF sorted = <<>> THEN <<m>>
    ELSE IF Head(sorted).overall_similarity >= m.overall_similarity
         THEN <<Head(sorted)>> \o InsertDesc(Tail(sorted), m)
         ELSE <<m>> \o sorted

\* the matches left in the order of the scan
ScanOrder(sorted, matches) == sorted \o matches

RECURSIVE SortDesc(_, _)
SortDesc(sorted, matches) ==
    IF matches = <<>> THEN sorted
    ELSE SortDesc(InsertDesc(sorted, Head(matches)), Tail(matches))

\* SimilarityService.find_similar_incidents
FindSimilarIncidents(fpRows, claimRows, new_text_embedding, new_image_embedding, spatial_fingerprint, temporal_fingerprint, limit) ==
    LET matches == ScanMatches(Historical(fpRows, claimRows), claimRows,
                               new_text_embedding, new_image_embedding,
                               spatial_fingerprint, temporal_fingerprint)
        ranked == SortDesc(<<>>, matches)
    IN  SubSeq(ranked, 1, Min(limit, Len(ranked)))

-----------------------------------------------------------------------------
(* gemini_fraud_analyzer.py *)

\* JSON values of the reasoning provider's answer
JMissing == [t |-> "missing"]
JNull == [t |-> "null"]
JNum(n) == [t |-> "num", n |-> n]
JStr(x) == [t |-> "str", s |-> x]

\* float(x) raises: None, or a string that is no number
FloatRaises(j) == j.t = "null" \/ (j.t = "str" /\ j.s \notin {"0.5"})

\* float(x), in units of 1/100
Float(j) == IF j.t = "num" THEN j.n ELSE 50

\* _parse_gemini_response raises.  A response is what generate_content does:
\*   [kind |-> "raise"]     the call raises
\*   [kind |-> "not_json"]  json.loads raises on the text
\*   [kind |-> "object", fraud_risk_level, fraud_score, reasoning]  a JSON object
ParseRaises(response) ==
    \/ response.kind = "not_json"
    \/ /\ response.kind = "object"
       /\ \/ response.fraud_risk_level = JMissing
          \/ response.fraud_score = JMissing
          \/ response.reasoning = JMissing
          \/ FloatRaises(response.fraud_score)

\* GeminiFraudAnalyzer._parse_gemini_response, where it returns
ParseGeminiResponse(response) ==
    [fraud_risk_level |-> response.fraud_risk_level,
     fraud_score |-> Float(response.fraud_score),
     source |-> "gemini"]

\* _fallback_analysis with the pattern scores compared by >= 0.7
FallbackAnalysisFromThreshold(damage_description, temporal_pattern_score, spatial_cluster_score, similar_count) ==
    IF similar_count = 0
    THEN [fraud_risk_level |-> JStr("LOW"), fraud_score |-> 10, source |-> "fallback"]
    ELSE LET desc_len == DescLen(damage_description)
             risk_score ==
                 (IF temporal_pattern_score >= 7000 THEN 30 ELSE 0) +
                 (IF spatial_cluster_score >= 7000 THEN 30 ELSE 0) +
                 (IF similar_count > 5 THEN 20 ELSE 0) +
                 (IF desc_len < 50 THEN 10 ELSE IF desc_len > 2000 THEN 5 ELSE 0)
             risk_level ==
                 IF risk_score >= 75 THEN "CRITICAL"
                 ELSE IF risk_score >= 50 THEN "HIGH"
                 ELSE IF risk_score >= 30 THEN "MEDIUM"
                 ELSE "LOW"
         IN  [fraud_risk_level |-> JStr(risk_level),
              fraud_score |-> Min(risk_score, ScoreScale),
              source |-> "fallback"]

\* _fallback_analysis without its early return for similar_count == 0
FallbackAnalysisNoEarlyReturn(damage_description, temporal_pattern_score, spatial_cluster_score, similar_count) ==
    LET desc_len == DescLen(damage_description)
        risk_score ==
            (IF temporal_pattern_score > 7000 THEN 30 ELSE 0) +
            (IF spatial_cluster_score > 7000 THEN 30 ELSE 0) +
            (IF similar_count > 5 THEN 20 ELSE 0) +
            (IF desc_len < 50 THEN 10 ELSE IF desc_len > 2000 THEN 5 ELSE 0)
        risk_level ==
            IF risk_score >= 75 THEN "CRITICAL"
            ELSE IF risk_score >= 50 THEN "HIGH"
            ELSE IF risk_score >= 30 THEN "MEDIUM"
            ELSE "LOW"
    IN  [fraud_risk_level |-> JStr(risk_level),
         fraud_score |-> Min(risk_score, ScoreScale),
         source |-> "fallback"]

\* GeminiFraudAnalyzer._fallback_analysis
FallbackAnalysis(damage_description, temporal_pattern_score, spatial_cluster_score, similar_count) ==
    IF similar_count = 0
    THEN [fraud_risk_level |-> JStr("LOW"), fraud_score |-> 10, source |-> "fallback"]
    ELSE LET desc_len == DescLen(damage_description)
             risk_score ==
                 (IF temporal_pattern_score > 7000 THEN 30 ELSE 0) +
                 (IF spatial_cluster_score > 7000 THEN 30 ELSE 0) +
                 (IF similar_count > 5 THEN 20 ELSE 0) +
                 (IF desc_len < 50 THEN 10 ELSE IF desc_len > 2000 THEN 5 ELSE 0)
             risk_level ==
                 IF risk_score >= 75 THEN "CRITICAL"
                 ELSE IF risk_score >= 50 THEN "HIGH"
                 ELSE IF risk_score >= 30 THEN "MEDIUM"
                 ELSE "LOW"
         IN  [fraud_risk_level |-> JStr(risk_level),
              fraud_score |-> Min(risk_score, ScoreScale),
              source |-> "fallback"]

\* GeminiFraudAnalyzer.analyze_claim_fraud_risk: `client` is self.client,
\* `response` what the reasoning provider does when it is called
AnalyzeClaimFraudRisk(client, response, damage_description, similar_count, temporal_pattern_score, spatial_cluster_score) ==
    IF ~client
    THEN FallbackAnalysis(damage_description, temporal_pattern_score,
                          spatial_cluster_score, similar_count)
    ELSE IF response.kind = "raise" \/ ParseRaises(response)
         THEN FallbackAnalysis(damage_description, temporal_pattern_score,
                               spatial_cluster_score, similar_count)
         ELSE ParseGeminiResponse(response)

\* analyze_claim_fraud_risk with the requests it sends to the reasoning model:
\* `responses` is what the provider does at the first, second, ... request
AnalyzeClaimFraudRiskCall(client, responses, damage_description, similar_count, temporal_pattern_score, spatial_cluster_score) ==
    [analysis |-> AnalyzeClaimFraudRisk(client, responses[1], damage_description,
                                        similar_count, temporal_pattern_score,
                                        spatial_cluster_score),
     attempts |-> IF client THEN 1 ELSE 0]

-----------------------------------------------------------------------------
(* claim_service.py: helpers of ClaimProcessingService *)

\* str.upper() on the strings the model draws from
Upper(x) == IF x = "low" THEN "LOW" ELSE x

\* (fraud_risk_level or "LOW").upper() raises AttributeError: a truthy non-string
MapRecommendationRaises(fraud_risk_level) ==
    fraud_risk_level.t = "num" /\ fraud_risk_level.n # 0

\* _map_recommendation comparing with `>` where the code has `>=`
MapRecommendationStrict(fraud_risk_level, fraud_risk_score) ==
    LET level == IF fraud_risk_level.t = "str" /\ fraud_risk_level.s # ""
                 THEN Upper(fraud_risk_level.s)
                 ELSE "LOW"
    IN  IF level \in {"HIGH", "CRITICAL"} THEN "INVESTIGATE"
        ELSE IF level = "MEDIUM" THEN "HOLD"
        ELSE IF fraud_risk_score > 50 THEN "HOLD"
        ELSE "PROCEED"

\* ClaimProcessingService._map_recommendation
MapRecommendation(fraud_risk_level, fraud_risk_score) ==
    LET level == IF fraud_risk_level.t = "str" /\ fraud_risk_level.s # ""
                 THEN Upper(fraud_risk_level.s)
                 ELSE "LOW"
    IN  IF level \in {"HIGH", "CRITICAL"} THEN "INVESTIGATE"
        ELSE IF level = "MEDIUM" THEN "HOLD"
        ELSE IF fraud_risk_score >= 50 THEN "HOLD"
        ELSE "PROCEED"

\* the payloads of image_files that pass validate_image, in order
RECURSIVE ValidImages(_)
ValidImages(image_files) ==
    IF image_files = <<>> THEN <<>>
    ELSE (IF ValidateImage(Head(image_files)) THEN <<Head(image_files)>> ELSE <<>>)
         \o ValidImages(Tail(image_files))

\* processed_embeddings of _process_images; outcomes[k] is what the provider
\* does for the k-th payload
RECURSIVE ProcessedEmbeddings(_, _, _)
ProcessedEmbeddings(image_files, client, outcomes) ==
    IF image_files = <<>> THEN <<>>
    ELSE (IF ValidateImage(Head(image_files))
          THEN <<GenerateEmbedding(Head(image_files), client, Head(outcomes))>>
          ELSE <<>>)
         \o ProcessedEmbeddings(Tail(image_files), client, Tail(outcomes))

RECURSIVE SumVecs(_)
SumVecs(embs) ==
    IF Len(embs) = 1 THEN Head(embs).v
    ELSE LET rest == SumVecs(Tail(embs))
         IN  [k \in 1..Len(rest) |-> Head(embs).v[k] + rest[k]]

\* np.mean(processed_embeddings, axis=0) raises for rows of different lengths
MeanRaises(embs) == \E a \in 1..Len(embs), b \in 1..Len(embs) : embs[a].dim # embs[b].dim

\* np.mean(processed_embeddings, axis=0).tolist(), rounded down to the unit
MeanEmbedding(embs) ==
    LET total == SumVecs(embs)
    IN  [dim |-> embs[1].dim, v |-> [k \in 1..Len(total) |-> total[k] \div Len(embs)]]

\* ClaimProcessingService._process_images: the image embedding it returns
ProcessImagesEmbedding(image_files, client, outcomes) ==
    LET processed_embeddings == ProcessedEmbeddings(image_files, client, outcomes)
    IN  IF processed_embeddings # <<>>
        THEN MeanEmbedding(processed_embeddings)
        ELSE PlaceholderEmbedding

-----------------------------------------------------------------------------
(* The store and the invocations *)

Invocations == 1..MaxInv

NoRows == [claims |-> {}, fingerprints |-> {}, results |-> {}, images |-> {}]
NoAnalysis == [fraud_risk_level |-> JNull, fraud_score |-> 0, source |-> "none"]
NoReturn == [status |-> "none"]
NoDate == [y |-> 0, mo |-> 0, d |-> 0, h |-> 0, mi |-> 0, dow |-> ""]

Idle ==
    [pc |-> "idle", user_id |-> 0, incident_type |-> "", damage_description |-> "",
     location_zone |-> "", incident_date_approx |-> NoDate,
     incident_time_window_start |-> NoDate, incident_time_window_end |-> NoDate,
     image_files |-> <<>>, claim_id |-> 0, image_embedding |-> NoVec,
     text_embedding |-> NoVec, spatial_fp |-> <<>>, temporal_fp |-> <<>>,
     severity |-> 0, similar_incidents |-> <<>>, analysis |-> NoAnalysis,
     recommendation |-> "", error |-> "", result |-> NoReturn]

\* the locals of an invocation that has ended: what its caller and the log keep
Ended(loc, pc, error, result) ==
    [Idle EXCEPT !.pc = pc, !.claim_id = loc.claim_id, !.image_files = loc.image_files,
                 !.error = error, !.result = result]

\* the submissions the pipeline is called with, after the route's validation:
\* <<user id, location zone, incident date, window start, window end,
\*   description, image payloads>>
Submissions ==
    { <<1, "zone_a", D1, W1start, W1end, "A", <<>> >>,
      <<2, "zone_a", D1, W1start, W1end, "A", <<>> >>,
      <<2, "zone_a", D3, W1start, W1end, "A", <<>> >>,
      <<1, "zone_a", D2, W2start, W2end, "A", <<>> >>,
      <<1, "zone_a", D1, W1start, W1end, "A", <<"png">> >>,
      <<2, "zone_a", D1, W1start, W1end, "A", <<"png", "jpg">> >>,
      <<2, "zone_b", D3, W1start, W1end, "B", <<"big">> >>,
      <<1, "zone_b", D1, W2start, W2end, "B", <<"png", "bad">> >> }
PipelineTypes == {"collision"}

\* the answers of the reasoning provider the pipeline is run with
PipelineResponses ==
    { [kind |-> "raise", fraud_risk_level |-> JMissing, fraud_score |-> JMissing,
       reasoning |-> JMissing],
      [kind |-> "object", fraud_risk_level |-> JStr("HIGH"), fraud_score |-> JNum(80),
       reasoning |-> JStr("r")],
      [kind |-> "object", fraud_risk_level |-> JStr("LOW"), fraud_score |-> JNum(150),
       reasoning |-> JStr("r")],
      [kind |-> "object", fraud_risk_level |-> JStr("SEVERE"), fraud_score |-> JNum(40),
       reasoning |-> JStr("r")],
      [kind |-> "object", fraud_risk_level |-> JNum(3), fraud_score |-> JNum(50),
       reasoning |-> JStr("r")],
      [kind |-> "object", fraud_risk_level |-> JStr("HIGH"), fraud_score |-> JNum(80),
       reasoning |-> JMissing] }

\* rows a session sees: the committed ones and those of its own transaction
VisibleClaims(i) == dbClaims \cup pending[i].claims
VisibleFingerprints(i) == dbFingerprints \cup pending[i].fingerprints

Init ==
    /\ geminiConfigured \in BOOLEAN
    /\ dbClaims = {} /\ dbFingerprints = {} /\ dbResults = {} /\ dbImages = {}
    /\ blobs = {}
    /\ commits = 0
    /\ nextClaimId = 1
    /\ nextFpId = 1
    /\ inv = [i \in Invocations |-> Idle]
    /\ pending = [i \in Invocations |-> NoRows]
    /\ running = 0
    /\ arg = [op |-> "none"]
    /\ out = [op |-> "none"]

\* the except clause without the rollback: the session keeps what it flushed
RollbackMissing(i, error) ==
    /\ inv' = [inv EXCEPT ![i] = Ended(@, "failed", error, [status |-> "raised"])]
    /\ pending' = pending

\* except: await db.rollback(); ...; raise
Rollback(i, error) ==
    /\ inv' = [inv EXCEPT ![i] = Ended(@, "failed", error, [status |-> "raised"])]
    /\ pending' = [pending EXCEPT ![i] = NoRows]

\* Step 1 with `await db.commit()` in place of the flush
CreateClaimRowCommitted(i, sub, type) ==
    /\ inv' = [inv EXCEPT ![i] =
           [Idle EXCEPT !.pc = "created", !.user_id = sub[1],
                        !.incident_type = type, !.damage_description = sub[6],
                        !.location_zone = sub[2], !.incident_date_approx = sub[3],
                        !.incident_time_window_start = sub[4],
                        !.incident_time_window_end = sub[5],
                        !.image_files = sub[7], !.claim_id = nextClaimId]]
    /\ dbClaims' = dbClaims \cup
           {[id |-> nextClaimId, claim_reference_id |-> nextClaimId,
             user_id |-> sub[1], incident_type |-> type, location_zone |-> sub[2],
             damage_description |-> sub[6], incident_date_approx |-> sub[3],
             incident_time_window_start |-> sub[4],
             incident_time_window_end |-> sub[5],
             image_count |-> Len(sub[7]), is_processed |-> FALSE,
             txn |-> i, submitted_after |-> commits, commit |-> commits + 1]}
    /\ commits' = commits + 1
    /\ nextClaimId' = nextClaimId + 1
    /\ running' = 0
    /\ UNCHANGED <<geminiConfigured, dbFingerprints, dbResults, dbImages, nextFpId,
                   blobs, pending>>

\* Step 1 for the arguments the route passes:
\* claim = Claim(...); db.add(claim); await db.flush()
CreateClaimRow(i, sub, type) ==
    /\ inv' = [inv EXCEPT ![i] =
           [Idle EXCEPT !.pc = "created", !.user_id = sub[1],
                        !.incident_type = type, !.damage_description = sub[6],
                        !.location_zone = sub[2], !.incident_date_approx = sub[3],
                        !.incident_time_window_start = sub[4],
                        !.incident_time_window_end = sub[5],
                        !.image_files = sub[7], !.claim_id = nextClaimId]]
    /\ pending' = [pending EXCEPT ![i].claims =
           {[id |-> nextClaimId, claim_reference_id |-> nextClaimId,
             user_id |-> sub[1], incident_type |-> type, location_zone |-> sub[2],
             damage_description |-> sub[6], incident_date_approx |-> sub[3],
             incident_time_window_start |-> sub[4],
             incident_time_window_end |-> sub[5],
             image_count |-> Len(sub[7]), is_processed |-> FALSE,
             txn |-> i, submitted_after |-> commits, commit |-> 0]}]
    /\ nextClaimId' = nextClaimId + 1
    /\ running' = 0
    /\ UNCHANGED <<geminiConfigured, storeVars, blobs>>

\* Step 1 of an invocation whose arguments passed the route's validation
CreateClaim(i) ==
    /\ inv[i].pc = "idle"
    /\ running \in {0, i}
    /\ \A j \in Invocations : j < i => inv[j].pc # "idle"
    /\ \E sub \in Submissions, type \in PipelineTypes : CreateClaimRow(i, sub, type)
    /\ UNCHANGED probeVars

\* Step 1 where the flush raises
CreateClaimFails(i) ==
    /\ inv[i].pc = "idle"
    /\ running \in {0, i}
    /\ \A j \in Invocations : j < i => inv[j].pc # "idle"
    /\ Rollback(i, "persistence")
    /\ running' = 0
    /\ UNCHANGED <<geminiConfigured, storeVars, blobs, nextClaimId, probeVars>>

\* the files and claim_images rows ImageStorageService.persist_images writes for
\* the first n valid payloads
StoredImages(claim_id, image_files, n) ==
    LET valid == ValidImages(image_files)
    IN  {[claim_id |-> claim_id, image |-> valid[k], position |-> k, commit |-> 0] :
             k \in 1..Min(n, Len(valid))}

\* the provider outcomes to draw for the payloads of one submission
ImageOutcomes(image_files) ==
    IF geminiConfigured
    THEN [1..Len(image_files) -> EmbedOutcomes]
    ELSE {[k \in 1..Len(image_files) |-> [kind |-> "raise", vec |-> NoVec]]}

\* Step 2: _process_images and persist_images (skipped without image_files)
ProcessImages(i) ==
    /\ inv[i].pc = "created"
    /\ running \in {0, i}
    /\ IF inv[i].image_files = <<>>
       THEN /\ inv' = [inv EXCEPT ![i].pc = "images_processed"]
            /\ UNCHANGED <<blobs, pending>>
       ELSE \E outcomes \in ImageOutcomes(inv[i].image_files) :
              LET stored == StoredImages(inv[i].claim_id, inv[i].image_files,
                                         Len(inv[i].image_files))
              IN  /\ inv' = [inv EXCEPT ![i].pc = "images_processed",
                                        ![i].image_embedding =
                                            ProcessImagesEmbedding(inv[i].image_files,
                                                                   geminiConfigured,
                                                                   outcomes)]
                  /\ blobs' = blobs \cup stored
                  /\ pending' = [pending EXCEPT ![i].images = stored]
    /\ running' = i
    /\ UNCHANGED <<geminiConfigured, storeVars, nextClaimId, probeVars>>

\* Step 2 where persist_images raises after writing the files of n payloads
PersistImagesFails(i) ==
    /\ inv[i].pc = "created"
    /\ running \in {0, i}
    /\ inv[i].image_files # <<>>
    /\ \E n \in 0..Len(ValidImages(inv[i].image_files)) :
           blobs' = blobs \cup StoredImages(inv[i].claim_id, inv[i].image_files, n)
    /\ Rollback(i, "persistence")
    /\ running' = 0
    /\ UNCHANGED <<geminiConfigured, storeVars, nextClaimId, probeVars>>

\* Step 3 run together with Step 4
GenerateEmbeddingsAndFingerprints(i) ==
    /\ inv[i].pc = "images_processed"
    /\ running \in {0, i}
    /\ inv' = [inv EXCEPT ![i].pc = "fingerprinted",
                          ![i].text_embedding = FallbackEmbedding(inv[i].damage_description),
                          ![i].image_embedding =
                              IF inv[i].image_embedding = NoVec
                              THEN PlaceholderEmbedding
                              ELSE inv[i].image_embedding,
                          ![i].spatial_fp = GenerateSpatialFingerprint(inv[i].location_zone),
                          ![i].temporal_fp =
                              GenerateTemporalFingerprint(inv[i].incident_date_approx,
                                                          inv[i].incident_time_window_start,
                                                          inv[i].incident_time_window_end)]
    /\ running' = 0
    /\ UNCHANGED <<geminiConfigured, storeVars, blobs, nextClaimId, pending, probeVars>>

\* Step 3: generate_text_embedding; the placeholder when there is no image embedding
GenerateEmbeddings(i) ==
    /\ inv[i].pc = "images_processed"
    /\ running \in {0, i}
    /\ \E outcome \in (IF geminiConfigured THEN EmbedOutcomes
                       ELSE {[kind |-> "raise", vec |-> NoVec]}) :
           inv' = [inv EXCEPT ![i].pc = "embedded",
                              ![i].text_embedding =
                                  GenerateEmbedding(inv[i].damage_description,
                                                    geminiConfigured, outcome),
                              ![i].image_embedding =
                                  IF inv[i].image_embedding = NoVec
                                  THEN PlaceholderEmbedding
                                  ELSE inv[i].image_embedding]
    /\ running' = i
    /\ UNCHANGED <<geminiConfigured, storeVars, blobs, nextClaimId, pending, probeVars>>

\* Step 4: the spatial and temporal fingerprints and the severity score
GenerateFingerprints(i) ==
    /\ inv[i].pc = "embedded"
    /\ running \in {0, i}
    /\ inv' = [inv EXCEPT ![i].pc = "fingerprinted",
                          ![i].spatial_fp = GenerateSpatialFingerprint(inv[i].location_zone),
                          ![i].temporal_fp =
                              GenerateTemporalFingerprint(inv[i].incident_date_approx,
                                                          inv[i].incident_time_window_start,
                                                          inv[i].incident_time_window_end),
                          ![i].severity =
                              CalculateDamageSeverityScore(inv[i].damage_description,
                                                           Len(inv[i].image_files))]
    /\ running' = 0
    /\ UNCHANGED <<geminiConfigured, storeVars, blobs, nextClaimId, pending, probeVars>>

\* Step 5 run after the fingerprint of the invocation was added to its session
FindSimilarAfterOwnFingerprint(i) ==
    /\ inv[i].pc = "fingerprinted"
    /\ running \in {0, i}
    /\ inv' = [inv EXCEPT ![i].pc = "matched",
                          ![i].similar_incidents =
                              FindSimilarIncidents(
                                  VisibleFingerprints(i) \cup
                                      {[id |-> nextFpId, claim_id |-> inv[i].claim_id,
                                        claim_reference_id |-> inv[i].claim_id,
                                        image_embedding |-> inv[i].image_embedding,
                                        text_embedding |-> inv[i].text_embedding,
                                        spatial_fingerprint |-> inv[i].spatial_fp,
                                        temporal_fingerprint |-> inv[i].temporal_fp,
                                        incident_type_code |-> inv[i].incident_type,
                                        damage_severity_score |-> inv[i].severity,
                                        txn |-> i, commit |-> 0]},
                                  VisibleClaims(i),
                                  inv[i].text_embedding, inv[i].image_embedding,
                                  inv[i].spatial_fp, inv[i].temporal_fp, ScanLimit)]
    /\ running' = i
    /\ UNCHANGED <<geminiConfigured, storeVars, blobs, nextClaimId, pending, probeVars>>

\* Step 5 reading the rows every open transaction has flushed
FindSimilarReadUncommitted(i) ==
    /\ inv[i].pc = "fingerprinted"
    /\ running \in {0, i}
    /\ inv' = [inv EXCEPT ![i].pc = "matched",
                          ![i].similar_incidents =
                              FindSimilarIncidents(
                                  dbFingerprints \cup
                                      UNION {pending[j].fingerprints : j \in Invocations},
                                  dbClaims \cup
                                      UNION {pending[j].claims : j \in Invocations},
                                  inv[i].text_embedding, inv[i].image_embedding,
                                  inv[i].spatial_fp, inv[i].temporal_fp, ScanLimit)]
    /\ running' = i
    /\ UNCHANGED <<geminiConfigured, storeVars, blobs, nextClaimId, pending, probeVars>>

\* Step 5: find_similar_incidents(..., limit=10)
FindSimilar(i) ==
    /\ inv[i].pc = "fingerprinted"
    /\ running \in {0, i}
    /\ inv' = [inv EXCEPT ![i].pc = "matched",
                          ![i].similar_incidents =
                              FindSimilarIncidents(VisibleFingerprints(i), VisibleClaims(i),
                                                   inv[i].text_embedding,
                                                   inv[i].image_embedding,
                                                   inv[i].spatial_fp, inv[i].temporal_fp,
                                                   ScanLimit)]
    /\ running' = i
    /\ UNCHANGED <<geminiConfigured, storeVars, blobs, nextClaimId, pending, probeVars>>

\* Step 5 where db.execute raises
FindSimilarFails(i) ==
    /\ inv[i].pc = "fingerprinted"
    /\ running \in {0, i}
    /\ Rollback(i, "persistence")
    /\ running' = 0
    /\ UNCHANGED <<geminiConfigured, storeVars, blobs, nextClaimId, probeVars>>

\* temporal_score / spatial_score of Step 6
TopScore(similar_incidents, field) ==
    IF similar_incidents # <<>> THEN similar_incidents[1][field] ELSE 0

\* the analysis of Step 6 for what the reasoning provider does
Analysis(i, response) ==
    AnalyzeClaimFraudRisk(geminiConfigured, response, inv[i].damage_description,
                          Len(inv[i].similar_incidents),
                          TopScore(inv[i].similar_incidents, "temporal_similarity"),
                          TopScore(inv[i].similar_incidents, "spatial_similarity"))

ResponsesDrawn ==
    IF geminiConfigured THEN PipelineResponses
    ELSE {[kind |-> "raise", fraud_risk_level |-> JMissing, fraud_score |-> JMissing,
           reasoning |-> JMissing]}

\* Step 6: analyze_claim_fraud_risk and _map_recommendation
Score(i) ==
    /\ inv[i].pc = "matched"
    /\ running \in {0, i}
    /\ \E response \in ResponsesDrawn :
           LET gemini_analysis == Analysis(i, response)
           IN  /\ ~MapRecommendationRaises(gemini_analysis.fraud_risk_level)
               /\ inv' = [inv EXCEPT ![i].pc = "scored",
                                     ![i].analysis = gemini_analysis,
                                     ![i].recommendation =
                                         MapRecommendation(gemini_analysis.fraud_risk_level,
                                                           gemini_analysis.fraud_score)]
    /\ running' = 0
    /\ UNCHANGED <<geminiConfigured, storeVars, blobs, nextClaimId, pending, probeVars>>

\* Step 6 where _map_recommendation raises AttributeError
ScoreRaises(i) ==
    /\ inv[i].pc = "matched"
    /\ running \in {0, i}
    /\ \E response \in ResponsesDrawn :
           MapRecommendationRaises(Analysis(i, response).fraud_risk_level)
    /\ Rollback(i, "AttributeError")
    /\ running' = 0
    /\ UNCHANGED <<geminiConfigured, storeVars, blobs, nextClaimId, probeVars>>

\* the rows of a transaction as the commit numbered n makes them durable
Durable(rows, n) == {[r EXCEPT !.commit = n] : r \in rows}

\* Step 7: incident_fingerprint = IncidentFingerprint(...)
FingerprintRow(i) ==
    [id |-> nextFpId, claim_id |-> inv[i].claim_id,
     claim_reference_id |-> inv[i].claim_id,
     image_embedding |-> inv[i].image_embedding,
     text_embedding |-> inv[i].text_embedding,
     spatial_fingerprint |-> inv[i].spatial_fp,
     temporal_fingerprint |-> inv[i].temporal_fp,
     incident_type_code |-> inv[i].incident_type,
     damage_severity_score |-> inv[i].severity, txn |-> i, commit |-> 0]

\* matched_fingerprint_id of top_match, 0 for None
TopMatchId(similar_incidents) ==
    IF similar_incidents # <<>> THEN similar_incidents[1].fingerprint_id ELSE 0

\* Step 8: analysis_result = FraudAnalysisResult(...)
ResultRow(i) ==
    [claim_id |-> inv[i].claim_id,
     matched_fingerprint_id |-> TopMatchId(inv[i].similar_incidents),
     overall_fraud_risk_score |-> inv[i].analysis.fraud_score,
     fraud_risk_level |-> inv[i].analysis.fraud_risk_level.s,
     recommendation |-> inv[i].recommendation,
     similarity_score |-> TopScore(inv[i].similar_incidents, "overall_similarity"),
     matched_fingerprint_count |-> Len(inv[i].similar_incidents),
     similarity_breakdown |->
         [k \in 1..Len(inv[i].similar_incidents) |->
              [fingerprint_id |-> inv[i].similar_incidents[k].fingerprint_id,
               overall_similarity |-> inv[i].similar_incidents[k].overall_similarity]],
     source |-> inv[i].analysis.source, txn |-> i, commit |-> 0]

\* the dictionary submit_and_analyze_claim returns
ReturnValue(i) ==
    [status |-> "returned",
     fraud_risk_score |-> inv[i].analysis.fraud_score,
     fraud_risk_level |-> inv[i].analysis.fraud_risk_level.s,
     recommendation |-> inv[i].recommendation,
     matched_incidents_count |-> Len(inv[i].similar_incidents),
     top_match |-> TopMatchId(inv[i].similar_incidents)]

\* the column fraud_risk_level takes the value: a string (Enum without
\* validate_strings passes unknown strings through), never None or a number
LevelStorable(fraud_risk_level) == fraud_risk_level.t = "str"

\* Persist with a commit after Step 7 and another after Step 8
PersistTwoCommits(i) ==
    /\ inv[i].pc = "scored" /\ pending[i].fingerprints # {}
    /\ running \in {0, i}
    /\ LevelStorable(inv[i].analysis.fraud_risk_level)
    /\ dbClaims' = dbClaims \cup
           Durable({[c EXCEPT !.is_processed = TRUE] : c \in pending[i].claims}, commits + 2)
    /\ dbFingerprints' = dbFingerprints \cup Durable(pending[i].fingerprints, commits + 1)
    /\ dbResults' = dbResults \cup Durable({ResultRow(i)}, commits + 2)
    /\ dbImages' = dbImages \cup Durable(pending[i].images, commits + 1)
    /\ commits' = commits + 2
    /\ pending' = [pending EXCEPT ![i] = NoRows]
    /\ inv' = [inv EXCEPT ![i] = Ended(@, "persisted", "", ReturnValue(i))]
    /\ running' = 0
    /\ UNCHANGED <<geminiConfigured, blobs, nextClaimId, nextFpId, probeVars>>

\* Persist where the new fingerprint replaces the stored ones
PersistReplacing(i) ==
    /\ inv[i].pc = "scored" /\ pending[i].fingerprints # {}
    /\ running \in {0, i}
    /\ LevelStorable(inv[i].analysis.fraud_risk_level)
    /\ dbClaims' = dbClaims \cup
           Durable({[c EXCEPT !.is_processed = TRUE] : c \in pending[i].claims}, commits + 1)
    /\ dbFingerprints' = Durable(pending[i].fingerprints, commits + 1)
    /\ dbResults' = dbResults \cup Durable({ResultRow(i)}, commits + 1)
    /\ dbImages' = dbImages \cup Durable(pending[i].images, commits + 1)
    /\ commits' = commits + 1
    /\ pending' = [pending EXCEPT ![i] = NoRows]
    /\ inv' = [inv EXCEPT ![i] = Ended(@, "persisted", "", ReturnValue(i))]
    /\ running' = 0
    /\ UNCHANGED <<geminiConfigured, blobs, nextClaimId, nextFpId, probeVars>>

\* Step 7: db.add(incident_fingerprint); await db.flush(): the row takes its
\* primary key and stays in the invocation's open transaction
CreateFingerprint(i) ==
    /\ inv[i].pc = "scored" /\ pending[i].fingerprints = {}
    /\ running \in {0, i}
    /\ pending' = [pending EXCEPT ![i].fingerprints = {FingerprintRow(i)}]
    /\ nextFpId' = nextFpId + 1
    /\ running' = 0
    /\ UNCHANGED <<geminiConfigured, dbClaims, dbFingerprints, dbResults, dbImages,
                   commits, blobs, nextClaimId, inv, probeVars>>

\* Step 8: the result is added, the claim is marked processed and
\* `await db.commit()` makes the transaction durable
Persist(i) ==
    /\ inv[i].pc = "scored" /\ pending[i].fingerprints # {}
    /\ running \in {0, i}
    /\ LevelStorable(inv[i].analysis.fraud_risk_level)
    /\ dbClaims' = dbClaims \cup
           Durable({[c EXCEPT !.is_processed = TRUE] : c \in pending[i].claims}, commits + 1)
    /\ dbFingerprints' = dbFingerprints \cup Durable(pending[i].fingerprints, commits + 1)
    /\ dbResults' = dbResults \cup Durable({ResultRow(i)}, commits + 1)
    /\ dbImages' = dbImages \cup Durable(pending[i].images, commits + 1)
    /\ commits' = commits + 1
    /\ pending' = [pending EXCEPT ![i] = NoRows]
    /\ inv' = [inv EXCEPT ![i] = Ended(@, "persisted", "", ReturnValue(i))]
    /\ running' = 0
    /\ UNCHANGED <<geminiConfigured, blobs, nextClaimId, nextFpId, probeVars>>

\* Steps 7 and 8 where a flush or the commit raises; the rollback does not give
\* back the primary key a flushed fingerprint took
PersistFails(i) ==
    /\ inv[i].pc = "scored"
    /\ running \in {0, i}
    /\ Rollback(i, "persistence")
    /\ running' = 0
    /\ UNCHANGED <<geminiConfigured, storeVars, blobs, nextClaimId, probeVars>>

Next ==
    \E i \in Invocations :
        \/ CreateClaim(i)
        \/ CreateClaimFails(i)
        \/ ProcessImages(i)
        \/ PersistImagesFails(i)
        \/ GenerateEmbeddings(i)
        \/ GenerateFingerprints(i)
        \/ FindSimilar(i)
        \/ FindSimilarFails(i)
        \/ Score(i)
        \/ ScoreRaises(i)
        \/ CreateFingerprint(i)
        \/ Persist(i)
        \/ PersistFails(i)

Spec == Init /\ [][Next]_vars

-----------------------------------------------------------------------------
(* The endpoint POST /claims/analyze in front of the pipeline: one request,
   drawn in the initial state, handled by invocation 1 *)

MaxImagesPerClaim == 5     \* len(damage_images) > 5

\* the strings a form carries as a datetime
RouteDateStrings ==
    {"2024-01-30T14:00:00", "2024-01-30T13:00:00", "2024-01-30T15:00:00",
     "2024-01-30T15:00:00+00:00", "30/01/2024"}

\* datetime.fromisoformat(s): raises ValueError, or gives a datetime that is
\* offset-aware when the string carries an offset
FromIsoformat(s) ==
    CASE s = "2024-01-30T14:00:00" -> [raises |-> FALSE, aware |-> FALSE, value |-> D1]
      [] s = "2024-01-30T13:00:00" -> [raises |-> FALSE, aware |-> FALSE, value |-> W2start]
      [] s = "2024-01-30T15:00:00" -> [raises |-> FALSE, aware |-> FALSE, value |-> W2end]
      [] s = "2024-01-30T15:00:00+00:00" ->
             [raises |-> FALSE, aware |-> TRUE, value |-> W2end]
      [] s = "30/01/2024" -> [raises |-> TRUE, aware |-> FALSE, value |-> NoDate]

\* minutes of a datetime since the start of its year (the model's dates are
\* all of January)
MinuteOfYear(dt) == ((dt.d - 1) * 24 + dt.h) * 60 + dt.mi

\* a <= b on datetimes raises TypeError when one is offset-aware and the
\* other is not
CompareDatesRaises(a, b) == a.aware # b.aware

\* the requests: the form fields after authentication
RouteRequests ==
    { [op |-> "route", incident_type |-> t, location_zone |-> z,
       damage_description |-> "A", incident_date_approx |-> "2024-01-30T14:00:00",
       incident_time_window_start |-> ws, incident_time_window_end |-> we,
       damage_images |-> imgs, readable |-> r] :
          t \in {"collision", "hail"}, z \in {"zone_a", "zone_z"},
          ws \in {"2024-01-30T13:00:00", "2024-01-30T15:00:00", "30/01/2024"},
          we \in {"2024-01-30T13:00:00", "2024-01-30T15:00:00",
                  "2024-01-30T15:00:00+00:00"},
          imgs \in {<<>>, <<"png">>, <<"png", "png", "png", "png", "png">>,
                    <<"png", "png", "png", "png", "png", "png">>},
          r \in BOOLEAN }

\* the status analyze_claim answers with before it calls the service, 0 when
\* it calls the service
RouteRejection(req) ==
    LET incident_date == FromIsoformat(req.incident_date_approx)
        time_window_start == FromIsoformat(req.incident_time_window_start)
        time_window_end == FromIsoformat(req.incident_time_window_end)
    IN  IF req.incident_type \notin IncidentType THEN 422
        ELSE IF req.location_zone \notin LocationZone THEN 422
        ELSE IF incident_date.raises \/ time_window_start.raises
                    \/ time_window_end.raises THEN 422
        ELSE IF CompareDatesRaises(time_window_end, time_window_start) THEN 500
        ELSE IF MinuteOfYear(time_window_end.value)
                    <= MinuteOfYear(time_window_start.value) THEN 422
        ELSE IF Len(req.damage_images) > MaxImagesPerClaim THEN 422
        ELSE IF Len(req.damage_images) > 0 /\ ~req.readable THEN 422
        ELSE 0

\* the arguments analyze_claim passes to submit_and_analyze_claim
RouteSubmission(req) ==
    <<1, req.location_zone, FromIsoformat(req.incident_date_approx).value,
      FromIsoformat(req.incident_time_window_start).value,
      FromIsoformat(req.incident_time_window_end).value,
      req.damage_description, req.damage_images>>

InitRoute ==
    /\ geminiConfigured \in BOOLEAN
    /\ dbClaims = {} /\ dbFingerprints = {} /\ dbResults = {} /\ dbImages = {}
    /\ blobs = {}
    /\ commits = 0
    /\ nextClaimId = 1
    /\ nextFpId = 1
    /\ inv = [i \in Invocations |-> Idle]
    /\ pending = [i \in Invocations |-> NoRows]
    /\ running = 0
    /\ arg \in RouteRequests
    /\ out = [op |-> "none", status |-> 0, invoked |-> FALSE]

\* analyze_claim raises HTTPException before the call of the service
AnalyzeClaimRejects ==
    /\ out.op = "none"
    /\ RouteRejection(arg) # 0
    /\ out' = [op |-> "route", status |-> RouteRejection(arg), invoked |-> FALSE]
    /\ UNCHANGED <<pipelineVars, arg>>

\* analyze_claim calls submit_and_analyze_claim, which runs to its first await
AnalyzeClaimInvokes ==
    /\ out.op = "none"
    /\ RouteRejection(arg) = 0
    /\ inv[1].pc = "idle"
    /\ CreateClaimRow(1, RouteSubmission(arg), arg.incident_type)
    /\ out' = [op |-> "route", status |-> 0, invoked |-> TRUE]
    /\ UNCHANGED arg

\* the same call where the flush of Step 1 raises
AnalyzeClaimInvokesFails ==
    /\ out.op = "none"
    /\ RouteRejection(arg) = 0
    /\ inv[1].pc = "idle"
    /\ Rollback(1, "persistence")
    /\ running' = 0
    /\ out' = [op |-> "route", status |-> 0, invoked |-> TRUE]
    /\ UNCHANGED <<geminiConfigured, storeVars, blobs, nextClaimId, arg>>

\* ClaimAnalysisResponse(**analysis_result) raises ValidationError
ResponseRaises(result) ==
    \/ result.fraud_risk_score < 0
    \/ result.fraud_risk_score > ScoreScale
    \/ result.fraud_risk_level \notin FraudRiskLevel

\* the service has ended: analyze_claim returns the response or answers 500
AnalyzeClaimReturns ==
    /\ out.op = "route" /\ out.invoked /\ out.status = 0
    /\ inv[1].pc \in {"persisted", "failed"}
    /\ out' = [out EXCEPT !.status =
                  IF inv[1].pc = "persisted" /\ ~ResponseRaises(inv[1].result)
                  THEN 200 ELSE 500]
    /\ UNCHANGED <<pipelineVars, arg>>

NextRoute ==
    \/ AnalyzeClaimRejects
    \/ AnalyzeClaimInvokes
    \/ AnalyzeClaimInvokesFails
    \/ AnalyzeClaimReturns
    \/ \E i \in Invocations :
        \/ ProcessImages(i)
        \/ PersistImagesFails(i)
        \/ GenerateEmbeddings(i)
        \/ GenerateFingerprints(i)
        \/ FindSimilar(i)
        \/ FindSimilarFails(i)
        \/ Score(i)
        \/ ScoreRaises(i)
        \/ CreateFingerprint(i)
        \/ Persist(i)
        \/ PersistFails(i)

SpecRoute == InitRoute /\ [][NextRoute]_vars

-----------------------------------------------------------------------------
(* claim_service.py: the explanation of an assessment *)

\* insurance_company_id of Step 4: user.organization_name or str(user.id);
\* the id of a user without a name is the pair <<"user", id>>
InsuranceCompanyId(user) ==
    IF user.organization_name = "" THEN <<"user", user.id>>
    ELSE <<"organization", user.organization_name>>

RECURSIVE OrganizationNames(_)
OrganizationNames(similar_incidents) ==
    IF similar_incidents = <<>> THEN {}
    ELSE {Head(similar_incidents).organization_name}
             \cup OrganizationNames(Tail(similar_incidents))

\* ClaimProcessingService._generate_explanation: the template chosen, the
\* numbers it is filled with and the company_details sentence
\* ("warning", "found_at" or "none")
GenerateExplanation(fraud_risk_score, fraud_risk_level, similar_incidents, severity) ==
    LET unique_companies == OrganizationNames(similar_incidents)
        company_details ==
            IF Cardinality(unique_companies) > 1 THEN "warning"
            ELSE IF unique_companies # {} THEN "found_at"
            ELSE "none"
    IN  IF fraud_risk_level = "LOW" /\ similar_incidents = <<>>
        THEN [template |-> "low_no_incidents", company_details |-> "none",
              companies |-> {}, count |-> 0, score |-> 0]
        ELSE [template |-> CASE fraud_risk_level = "LOW" -> "low"
                             [] fraud_risk_level = "MEDIUM" -> "medium"
                             [] fraud_risk_level = "HIGH" -> "high"
                             [] OTHER -> "critical",
              company_details |-> company_details,
              companies |-> unique_companies,
              count |-> IF fraud_risk_level \in {"MEDIUM", "HIGH"}
                        THEN Len(similar_incidents) ELSE 0,
              score |-> IF fraud_risk_level = "LOW" THEN 0 ELSE fraud_risk_score]

-----------------------------------------------------------------------------
(* The similarity functions on their own: one call, for an argument drawn in
   the initial state *)

\* rows of incident_fingerprints and of claims that earlier invocations
\* committed: the claim of stored fingerprint n is claim n
StoredFingerprint(n, text_embedding, image_embedding, location_zone, incident_date) ==
    [id |-> n, claim_id |-> n, claim_reference_id |-> n,
     image_embedding |-> image_embedding, text_embedding |-> text_embedding,
     spatial_fingerprint |-> GenerateSpatialFingerprint(location_zone),
     temporal_fingerprint |-> GenerateTemporalFingerprint(incident_date, W1start, W1end),
     incident_type_code |-> "collision", damage_severity_score |-> 33,
     txn |-> 1, commit |-> n]

StoredClaim(n, user_id, location_zone, incident_date) ==
    [id |-> n, claim_reference_id |-> n, user_id |-> user_id,
     incident_type |-> "collision", location_zone |-> location_zone,
     damage_description |-> "A", incident_date_approx |-> incident_date,
     incident_time_window_start |-> W1start, incident_time_window_end |-> W1end,
     image_count |-> 0, is_processed |-> TRUE, txn |-> 1, submitted_after |-> n - 1,
     commit |-> n]

\* the new claim: a provider text vector, no images, zone_a, Tuesday 14:00
QueryText == [dim |-> FallbackDim, v |-> <<4, 3, 0, 0>>]
ZeroImage == [dim |-> PlaceholderDim, v |-> <<0, 0, 0, 0>>]

\* overall similarities to the new claim: 1 exactly 0.30, 2 0.325, 3 1.0,
\* 4 0.075, 6 0.825; 5 cannot be compared (an image vector of another length),
\* 7 has no row in claims
StoredFingerprints ==
    { StoredFingerprint(1, [dim |-> FallbackDim, v |-> <<1, 0, 0, 0>>], ZeroImage, "zone_b", D3),
      StoredFingerprint(2, QueryText, ZeroImage, "zone_b", D3),
      StoredFingerprint(3, QueryText, PlaceholderEmbedding, "zone_a", D1),
      StoredFingerprint(4, [dim |-> FallbackDim, v |-> <<0, 0, 0, 0>>], ZeroImage, "zone_b", D3),
      StoredFingerprint(5, QueryText, FallbackEmbedding("png"), "zone_a", D1),
      StoredFingerprint(6, QueryText, PlaceholderEmbedding, "zone_a", D3),
      StoredFingerprint(7, QueryText, PlaceholderEmbedding, "zone_a", D1) }

StoredClaims ==
    { StoredClaim(1, 1, "zone_b", D3), StoredClaim(2, 3, "zone_b", D3),
      StoredClaim(3, 4, "zone_a", D1), StoredClaim(4, 2, "zone_b", D3),
      StoredClaim(5, 2, "zone_a", D1), StoredClaim(6, 1, "zone_a", D3) }

MaxCorpus == 3         \* stored fingerprints in one corpus
MaxImageCount == 6     \* images counted by calculate_damage_severity_score
Limits == {1, 2, ScanLimit}

\* fingerprint strings: the five spatial fingerprints and shorter strings of
\* hex digits, the empty one among them
HashStrings ==
    {Md5Hex16(z) : z \in LocationZone} \cup
    {<<>>, <<1>>, <<2>>, <<1, 2>>, <<1, 3>>, <<2, 1>>, <<1, 2, 3, 4>>, <<1, 2, 4, 3>>}

\* vectors: a length and the period repeated to that length
ProbeVecs ==
    { [dim |-> n, v |-> v] :
          n \in {PlaceholderDim, FallbackDim},
          v \in {<<0, 0, 0, 0>>, <<4, 3, 0, 0>>, <<1, 0, 0, 0>>, <<3, 1, 4, 1>>,
                 <<8, 8, 8, 8>>, <<-4, -3, 0, 0>>} }

ProbeSims == {0, 5000, SimScale}

\* incident dates generate_temporal_fingerprint is tried with: 14:00 and 14:45
\* of Tuesday 2024-01-30, 13:30 of Tuesday 2018-01-30, 16:00 of Tuesday
\* 2024-01-30 and 09:00 of Wednesday 2024-01-31
ProbeDates ==
    {D1, D2, D3,
     [y |-> 2018, mo |-> 1, d |-> 30, h |-> 13, mi |-> 30, dow |-> "Tuesday"],
     [y |-> 2024, mo |-> 1, d |-> 30, h |-> 16, mi |-> 0, dow |-> "Tuesday"]}

\* <<time_window_start, time_window_end>> it is tried with
ProbeWindows == {<<W1start, W1end>>, <<W2start, W2end>>}

SimilarityArgs ==
    { [op |-> "find", fpRows |-> S, limit |-> l] :
          S \in {T \in SUBSET StoredFingerprints : Cardinality(T) <= MaxCorpus},
          l \in Limits }
    \cup { [op |-> "hamming", hash1 |-> h1, hash2 |-> h2] :
               h1 \in HashStrings, h2 \in HashStrings }
    \cup { [op |-> "cosine", vec1 |-> v1, vec2 |-> v2] :
               v1 \in ProbeVecs, v2 \in ProbeVecs }
    \cup { [op |-> "overall", sims |-> <<t, i, s, p>>, k |-> k, higher |-> h] :
               t \in ProbeSims, i \in ProbeSims, s \in ProbeSims, p \in ProbeSims,
               k \in 1..4, h \in ProbeSims }
    \cup { [op |-> "spatial", zone1 |-> z1, zone2 |-> z2] :
               z1 \in LocationZone, z2 \in LocationZone }
    \cup { [op |-> "severity", damage_description |-> d, image_count |-> n] :
               d \in Descriptions, n \in 0..MaxImageCount }
    \cup { [op |-> "temporal", date1 |-> d1, window1 |-> w1, date2 |-> d2,
            window2 |-> w2] :
               d1 \in ProbeDates, w1 \in ProbeWindows, d2 \in ProbeDates,
               w2 \in ProbeWindows }

InitSimilarity ==
    /\ geminiConfigured = FALSE
    /\ dbClaims = {} /\ dbFingerprints = {} /\ dbResults = {} /\ dbImages = {}
    /\ blobs = {}
    /\ commits = 0
    /\ nextClaimId = 1
    /\ nextFpId = 1
    /\ inv = [i \in Invocations |-> Idle]
    /\ pending = [i \in Invocations |-> NoRows]
    /\ running = 0
    /\ arg \in SimilarityArgs
    /\ out = [op |-> "none"]

\* find_similar_incidents for the new claim against a corpus, and the
\* explanation Step 8 writes from its result for each tier
CallFindSimilarIncidents ==
    /\ arg.op = "find" /\ out.op = "none"
    /\ LET similar_incidents ==
               FindSimilarIncidents(arg.fpRows, StoredClaims, QueryText,
                                    PlaceholderEmbedding,
                                    GenerateSpatialFingerprint("zone_a"),
                                    GenerateTemporalFingerprint(D1, W1start, W1end),
                                    arg.limit)
       IN  out' = [op |-> "find", result |-> similar_incidents,
                   explanation |->
                       [l \in FraudRiskLevel |->
                           GenerateExplanation(50, l, similar_incidents, 33)]]
    /\ UNCHANGED <<pipelineVars, arg>>

\* differences / len(hash1) divides by zero for two empty strings
HammingRaises(hash1, hash2) == Len(hash1) = Len(hash2) /\ Len(hash1) = 0

CallHammingDistance ==
    /\ arg.op = "hamming" /\ out.op = "none"
    /\ out' = [op |-> "hamming", raised |-> HammingRaises(arg.hash1, arg.hash2),
               result |-> IF HammingRaises(arg.hash1, arg.hash2) THEN -1
                          ELSE HammingDistance(arg.hash1, arg.hash2)]
    /\ UNCHANGED <<pipelineVars, arg>>

CallCosineSimilarity ==
    /\ arg.op = "cosine" /\ out.op = "none"
    /\ out' = [op |-> "cosine", raised |-> CosineRaises(arg.vec1, arg.vec2),
               result |-> IF CosineRaises(arg.vec1, arg.vec2) THEN -1
                          ELSE CosineSimilarity(arg.vec1, arg.vec2)]
    /\ UNCHANGED <<pipelineVars, arg>>

\* the weighted sum for four component scores, and for the same scores with
\* component k replaced by `higher`
CallOverallSimilarity ==
    /\ arg.op = "overall" /\ out.op = "none"
    /\ LET c == arg.sims
           d == [arg.sims EXCEPT ![arg.k] = arg.higher]
       IN  out' = [op |-> "overall",
                   result |-> OverallSimilarity(c[1], c[2], c[3], c[4]),
                   replaced |-> OverallSimilarity(d[1], d[2], d[3], d[4])]
    /\ UNCHANGED <<pipelineVars, arg>>

\* generate_spatial_fingerprint for two zones, the first one called twice
CallGenerateSpatialFingerprint ==
    /\ arg.op = "spatial" /\ out.op = "none"
    /\ out' = [op |-> "spatial", first |-> GenerateSpatialFingerprint(arg.zone1),
               again |-> GenerateSpatialFingerprint(arg.zone1),
               second |-> GenerateSpatialFingerprint(arg.zone2)]
    /\ UNCHANGED <<pipelineVars, arg>>

CallCalculateDamageSeverityScore ==
    /\ arg.op = "severity" /\ out.op = "none"
    /\ out' = [op |-> "severity",
               result |-> CalculateDamageSeverityScore(arg.damage_description,
                                                       arg.image_count)]
    /\ UNCHANGED <<pipelineVars, arg>>

\* generate_temporal_fingerprint for two incident dates, each with a window
CallGenerateTemporalFingerprint ==
    /\ arg.op = "temporal" /\ out.op = "none"
    /\ out' = [op |-> "temporal",
               first |-> GenerateTemporalFingerprint(arg.date1, arg.window1[1],
                                                     arg.window1[2]),
               second |-> GenerateTemporalFingerprint(arg.date2, arg.window2[1],
                                                      arg.window2[2])]
    /\ UNCHANGED <<pipelineVars, arg>>

NextSimilarity ==
    \/ CallGenerateTemporalFingerprint
    \/ CallCalculateDamageSeverityScore
    \/ CallFindSimilarIncidents
    \/ CallHammingDistance
    \/ CallCosineSimilarity
    \/ CallOverallSimilarity
    \/ CallGenerateSpatialFingerprint

SpecSimilarity == InitSimilarity /\ [][NextSimilarity]_vars

-----------------------------------------------------------------------------
(* The scoring functions on their own: one call of analyze_claim_fraud_risk
   followed by _map_recommendation, as Step 6 makes it, for an argument drawn
   in the initial state *)

ScoringTiers ==
    {JStr("LOW"), JStr("MEDIUM"), JStr("HIGH"), JStr("CRITICAL"), JStr("low"),
     JStr("SEVERE"), JStr(""), JNull}
ScoringScores == {0, 10, 49, 50, 51, 75, 100}
ScoringSimilarities == {0, 7000, 7001, SimScale}
ScoringCounts == {0, 1, 5, 6}

ScoringResponses ==
    PipelineResponses \cup
    { [kind |-> "not_json", fraud_risk_level |-> JMissing, fraud_score |-> JMissing,
       reasoning |-> JMissing],
      [kind |-> "object", fraud_risk_level |-> JMissing, fraud_score |-> JNum(80),
       reasoning |-> JStr("r")],
      [kind |-> "object", fraud_risk_level |-> JStr("HIGH"), fraud_score |-> JMissing,
       reasoning |-> JStr("r")],
      [kind |-> "object", fraud_risk_level |-> JStr("HIGH"), fraud_score |-> JStr("high"),
       reasoning |-> JStr("r")],
      [kind |-> "object", fraud_risk_level |-> JStr("MEDIUM"), fraud_score |-> JStr("0.5"),
       reasoning |-> JStr("r")],
      [kind |-> "object", fraud_risk_level |-> JStr("LOW"), fraud_score |-> JNum(50),
       reasoning |-> JStr("r")],
      [kind |-> "object", fraud_risk_level |-> JStr("CRITICAL"), fraud_score |-> JNum(-20),
       reasoning |-> JStr("r")] }

NoResponse ==
    [kind |-> "raise", fraud_risk_level |-> JMissing, fraud_score |-> JMissing,
     reasoning |-> JMissing]

ScoringArgs ==
    { [op |-> "map", client |-> FALSE, response |-> NoResponse, fraud_risk_level |-> l,
       fraud_risk_score |-> x, damage_description |-> "A", similar_count |-> 0,
       temporal_pattern_score |-> 0, spatial_cluster_score |-> 0] :
          l \in ScoringTiers, x \in ScoringScores }
    \cup
    { [op |-> "fallback", client |-> FALSE, response |-> NoResponse,
       fraud_risk_level |-> JNull, fraud_risk_score |-> 0, damage_description |-> d,
       similar_count |-> n, temporal_pattern_score |-> t, spatial_cluster_score |-> z] :
          d \in Descriptions, n \in ScoringCounts, t \in ScoringSimilarities,
          z \in ScoringSimilarities }
    \cup
    { [op |-> "providers", client |-> c, text |-> "A", image_bytes |-> "png",
       text_answers |-> ta, image_answers |-> ia, responses |-> rs,
       damage_description |-> "A", similar_count |-> 6,
       temporal_pattern_score |-> SimScale, spatial_cluster_score |-> SimScale] :
          c \in BOOLEAN, ta \in EmbedOutcomes \X EmbedOutcomes,
          ia \in EmbedOutcomes \X EmbedOutcomes,
          rs \in PipelineResponses \X PipelineResponses }
    \cup
    { [op |-> "analyze", client |-> c, response |-> r, fraud_risk_level |-> JNull,
       fraud_risk_score |-> 0, damage_description |-> "A", similar_count |-> n,
       temporal_pattern_score |-> t, spatial_cluster_score |-> t] :
          c \in BOOLEAN, r \in ScoringResponses, n \in {0, 6}, t \in {0, SimScale} }

InitScoring ==
    /\ geminiConfigured = FALSE
    /\ dbClaims = {} /\ dbFingerprints = {} /\ dbResults = {} /\ dbImages = {}
    /\ blobs = {}
    /\ commits = 0
    /\ nextClaimId = 1
    /\ nextFpId = 1
    /\ inv = [i \in Invocations |-> Idle]
    /\ pending = [i \in Invocations |-> NoRows]
    /\ running = 0
    /\ arg \in ScoringArgs
    /\ out = [op |-> "none"]

\* what lines 205-210 make of an analysis: the score, the tier, the recommendation
Scored(gemini_analysis) ==
    [fraud_risk_score |-> gemini_analysis.fraud_score,
     fraud_risk_level |-> gemini_analysis.fraud_risk_level,
     source |-> gemini_analysis.source,
     raised |-> MapRecommendationRaises(gemini_analysis.fraud_risk_level),
     recommendation |->
         IF MapRecommendationRaises(gemini_analysis.fraud_risk_level) THEN ""
         ELSE MapRecommendation(gemini_analysis.fraud_risk_level,
                                gemini_analysis.fraud_score)]

\* _map_recommendation(fraud_risk_level, fraud_risk_score)
CallMapRecommendation ==
    /\ arg.op = "map" /\ out.op = "none"
    /\ out' = [op |-> "map",
               recommendation |-> MapRecommendation(arg.fraud_risk_level,
                                                    arg.fraud_risk_score)]
    /\ UNCHANGED <<pipelineVars, arg>>

\* _fallback_analysis(...) and the recommendation Step 6 maps it to
CallFallbackAnalysis ==
    /\ arg.op = "fallback" /\ out.op = "none"
    /\ out' = [op |-> "fallback",
               scored |-> Scored(FallbackAnalysis(arg.damage_description,
                                                  arg.temporal_pattern_score,
                                                  arg.spatial_cluster_score,
                                                  arg.similar_count))]
    /\ UNCHANGED <<pipelineVars, arg>>

\* analyze_claim_fraud_risk(...) and the recommendation Step 6 maps it to
CallAnalyzeClaimFraudRisk ==
    /\ arg.op = "analyze" /\ out.op = "none"
    /\ out' = [op |-> "analyze",
               scored |-> Scored(AnalyzeClaimFraudRisk(arg.client, arg.response,
                                                       arg.damage_description,
                                                       arg.similar_count,
                                                       arg.temporal_pattern_score,
                                                       arg.spatial_cluster_score))]
    /\ UNCHANGED <<pipelineVars, arg>>

\* the three provider calls of one invocation: generate_text_embedding,
\* generate_image_embedding for one image, analyze_claim_fraud_risk
CallProviders ==
    /\ arg.op = "providers" /\ out.op = "none"
    /\ out' = [op |-> "providers",
               text |-> GenerateEmbeddingCall(arg.text, arg.client, arg.text_answers),
               image |-> GenerateEmbeddingCall(arg.image_bytes, arg.client,
                                               arg.image_answers),
               reasoning |-> AnalyzeClaimFraudRiskCall(arg.client, arg.responses,
                                                       arg.damage_description,
                                                       arg.similar_count,
                                                       arg.temporal_pattern_score,
                                                       arg.spatial_cluster_score)]
    /\ UNCHANGED <<pipelineVars, arg>>

NextScoring ==
    \/ CallProviders
    \/ CallMapRecommendation
    \/ CallFallbackAnalysis
    \/ CallAnalyzeClaimFraudRisk

SpecScoring == InitScoring /\ [][NextScoring]_vars

-----------------------------------------------------------------------------
(* Properties *)

Terminal == {"persisted", "failed"}

\* C1: every committed claim that is marked processed has its fingerprint and
\* its analysis result committed too, and the three became durable in the same
\* commit, whatever the other invocations are doing.
C1_ProcessedWithFingerprintAndResult ==
    \A c \in dbClaims :
        c.is_processed =>
            \E f \in dbFingerprints, r \in dbResults :
                /\ f.claim_id = c.id /\ r.claim_id = c.id
                /\ f.commit = c.commit /\ r.commit = c.commit

\* a processed claim is committed while another invocation holds flushed rows of
\* its own
C1_Witness ==
    /\ \E c \in dbClaims : c.is_processed
    /\ \E i \in Invocations : inv[i].pc = "scored" /\ pending[i].claims # {}

\* C2: an invocation that has raised left no claim row, no fingerprint and no
\* result of its own in the store (flushed or committed) and handed its error
\* to the caller; the step that raised changed no committed row.
C2_FailedLeavesNothing ==
    /\ [](\A i \in Invocations :
             inv[i].pc = "failed" =>
                 /\ inv[i].result.status = "raised"
                 /\ pending[i] = NoRows
                 /\ \A r \in dbClaims \cup dbFingerprints \cup dbResults : r.txn # i)
    /\ [][\A i \in Invocations :
             (inv[i].pc # "failed" /\ inv'[i].pc = "failed") =>
                 UNCHANGED <<dbClaims, dbFingerprints, dbResults, dbImages>>]_vars

\* an invocation raised after it had flushed its claim row, with a committed
\* claim of another invocation in the store
C2_Witness ==
    \E i \in Invocations :
        /\ inv[i].pc = "failed" /\ inv[i].claim_id # 0
        /\ \E c \in dbClaims : c.txn # i

\* the stage that follows each stage
StageAfter ==
    {<<"idle", "created">>, <<"created", "images_processed">>,
     <<"images_processed", "embedded">>, <<"embedded", "fingerprinted">>,
     <<"fingerprinted", "matched">>, <<"matched", "scored">>,
     <<"scored", "persisted">>}

\* C3: a step of an invocation takes it to the next stage of created,
\* images_processed, embedded, fingerprinted, matched, scored, persisted, or
\* from a stage that is not terminal to failed; nothing leaves persisted or
\* failed.
C3_StagesInOrder ==
    [][\A i \in Invocations :
          inv'[i] # inv[i] =>
              /\ inv[i].pc \notin Terminal
              /\ \/ <<inv[i].pc, inv'[i].pc>> \in StageAfter
                 \/ inv'[i].pc = "failed"]_vars

\* one invocation went all the way to persisted and another one failed
C3_Witness ==
    \E i, j \in Invocations : inv[i].pc = "persisted" /\ inv[j].pc = "failed"

\* C4: no failure of the embedding provider or of the reasoning provider makes
\* an invocation fail (an invocation fails on a persistence operation only), and
\* a persisted result that holds the provider's values holds a well-formed tier.
C4_ProvidersNeverFailTheInvocation ==
    /\ \A i \in Invocations : inv[i].pc = "failed" => inv[i].error = "persistence"
    /\ \A r \in dbResults : r.source = "gemini" => r.fraud_risk_level \in FraudRiskLevel

\* C5: for a response that lacks fraud_risk_level, fraud_score or reasoning, or
\* whose fraud_score float() rejects, or whose fraud_risk_level is none of LOW,
\* MEDIUM, HIGH, CRITICAL, analyze_claim_fraud_risk returns what
\* _fallback_analysis returns for the same claim.
C5_MalformedResponseGivesFallback ==
    (out.op = "analyze" /\ arg.client /\ arg.response.kind = "object") =>
        LET response == arg.response
            malformed ==
                \/ response.fraud_risk_level = JMissing
                \/ response.fraud_score = JMissing
                \/ response.reasoning = JMissing
                \/ FloatRaises(response.fraud_score)
                \/ response.fraud_risk_level \notin {JStr(l) : l \in FraudRiskLevel}
        IN  malformed =>
                /\ out.scored.source = "fallback"
                /\ out.scored.fraud_risk_level =
                       FallbackAnalysis(arg.damage_description, arg.temporal_pattern_score,
                                        arg.spatial_cluster_score,
                                        arg.similar_count).fraud_risk_level
                /\ out.scored.fraud_risk_score =
                       FallbackAnalysis(arg.damage_description, arg.temporal_pattern_score,
                                        arg.spatial_cluster_score,
                                        arg.similar_count).fraud_score

\* C6: every persisted result and every analysis returned to the caller has a
\* score in [0,1] and a tier among LOW, MEDIUM, HIGH, CRITICAL.
C6_ScoreAndTierInRange ==
    /\ \A r \in dbResults :
           /\ 0 <= r.overall_fraud_risk_score /\ r.overall_fraud_risk_score <= ScoreScale
           /\ r.fraud_risk_level \in FraudRiskLevel
    /\ \A i \in Invocations :
           inv[i].result.status = "returned" =>
               /\ 0 <= inv[i].result.fraud_risk_score
               /\ inv[i].result.fraud_risk_score <= ScoreScale
               /\ inv[i].result.fraud_risk_level \in FraudRiskLevel

\* C7 as stated: INVESTIGATE for HIGH and CRITICAL, HOLD for MEDIUM, and for
\* LOW HOLD exactly when the score exceeds 0.5, for every score in [0,1].
C7_HoldAboveHalf ==
    (out.op = "map" /\ arg.fraud_risk_level \in {JStr(l) : l \in FraudRiskLevel}
        /\ 0 <= arg.fraud_risk_score /\ arg.fraud_risk_score <= ScoreScale) =>
        out.recommendation =
            CASE arg.fraud_risk_level.s \in {"HIGH", "CRITICAL"} -> "INVESTIGATE"
              [] arg.fraud_risk_level.s = "MEDIUM" -> "HOLD"
              [] arg.fraud_risk_level.s = "LOW" ->
                     IF arg.fraud_risk_score > 50 THEN "HOLD" ELSE "PROCEED"

\* C7 amended: INVESTIGATE for HIGH and CRITICAL, HOLD for MEDIUM, and for LOW
\* HOLD exactly when the score is at least 0.5 (LOW with 0.5 gives HOLD), for
\* every score in [0,1]; Step 6 maps the tier and score of either scoring path
\* the same way.
C7_HoldFromHalf ==
    /\ (out.op = "map" /\ arg.fraud_risk_level \in {JStr(l) : l \in FraudRiskLevel}
           /\ 0 <= arg.fraud_risk_score /\ arg.fraud_risk_score <= ScoreScale) =>
           out.recommendation =
               CASE arg.fraud_risk_level.s \in {"HIGH", "CRITICAL"} -> "INVESTIGATE"
                 [] arg.fraud_risk_level.s = "MEDIUM" -> "HOLD"
                 [] arg.fraud_risk_level.s = "LOW" ->
                        IF arg.fraud_risk_score >= 50 THEN "HOLD" ELSE "PROCEED"
    /\ (out.op \in {"fallback", "analyze"}
           /\ out.scored.fraud_risk_level \in {JStr(l) : l \in FraudRiskLevel}
           /\ 0 <= out.scored.fraud_risk_score
           /\ out.scored.fraud_risk_score <= ScoreScale) =>
           out.scored.recommendation =
               CASE out.scored.fraud_risk_level.s \in {"HIGH", "CRITICAL"} -> "INVESTIGATE"
                 [] out.scored.fraud_risk_level.s = "MEDIUM" -> "HOLD"
                 [] out.scored.fraud_risk_level.s = "LOW" ->
                        IF out.scored.fraud_risk_score >= 50 THEN "HOLD" ELSE "PROCEED"

\* _map_recommendation was called with LOW and 0.5 and returned HOLD
C7_Witness ==
    /\ out.op = "map" /\ arg.fraud_risk_level = JStr("LOW")
    /\ arg.fraud_risk_score = 50 /\ out.recommendation = "HOLD"

\* C8: with zero matches the fallback path gives tier LOW and recommendation
\* PROCEED, for every description, temporal score and spatial score.
C8_NoMatchesLowProceed ==
    (out.op \in {"fallback", "analyze"} /\ out.scored.source = "fallback"
        /\ arg.similar_count = 0) =>
        /\ out.scored.fraud_risk_level = JStr("LOW")
        /\ out.scored.recommendation = "PROCEED"

\* the fallback ran for zero matches with a short description and both pattern
\* scores at 1.0
C8_Witness ==
    /\ out.op = "fallback" /\ arg.similar_count = 0
    /\ arg.damage_description = "A"
    /\ arg.temporal_pattern_score = SimScale /\ arg.spatial_cluster_score = SimScale

\* the committed fingerprint and result of a committed claim
FingerprintOf(c) == CHOOSE f \in dbFingerprints : f.claim_id = c.id
ResultOf(c) == CHOOSE r \in dbResults : r.claim_id = c.id

\* the overall similarity find_similar_incidents computes between two stored
\* fingerprints, -1 where the comparison raises
Overall(f, g) ==
    IF CompareRaises(f, g.text_embedding, g.image_embedding) THEN -1
    ELSE MatchRecord(f, ClaimById(dbClaims, f.claim_id), g.text_embedding,
                     g.image_embedding, g.spatial_fingerprint,
                     g.temporal_fingerprint).overall_similarity

\* pairs of committed claims of which the second was submitted after the first
\* was committed
OneAfterTheOther ==
    {p \in dbClaims \X dbClaims : p[1].id # p[2].id /\ p[2].submitted_after >= p[1].commit}

\* C9 as stated: two claims submitted one after the other with the same zone,
\* the same time window and the same description have an overall similarity of
\* at least 0.9, and the first is the top match of the second.
C9_SameZoneWindowText ==
    \A p \in OneAfterTheOther :
        (/\ p[1].location_zone = p[2].location_zone
         /\ p[1].incident_time_window_start = p[2].incident_time_window_start
         /\ p[1].incident_time_window_end = p[2].incident_time_window_end
         /\ p[1].damage_description = p[2].damage_description) =>
            /\ Overall(FingerprintOf(p[1]), FingerprintOf(p[2])) >= 900000
            /\ ResultOf(p[2]).matched_fingerprint_id = FingerprintOf(p[1]).id

\* C10: a submission with an oversized or malformed image is never persisted
\* and leaves no claim row, no image row, no fingerprint and no result.
C10_InvalidImageLeavesNothing ==
    \A i \in Invocations :
        (\E k \in 1..Len(inv[i].image_files) : ~ValidateImage(inv[i].image_files[k])) =>
            /\ inv[i].pc # "persisted"
            /\ \A r \in dbClaims \cup dbFingerprints \cup dbResults : r.txn # i
            /\ \A r \in dbImages : r.claim_id # inv[i].claim_id

\* the cases C11 is about: the window end is not after the window start, more
\* than 5 images, or an incident type or location zone that is not enumerated
WindowNotAfter(req) ==
    LET time_window_start == FromIsoformat(req.incident_time_window_start)
        time_window_end == FromIsoformat(req.incident_time_window_end)
    IN  /\ ~time_window_start.raises /\ ~time_window_end.raises
        /\ ~CompareDatesRaises(time_window_end, time_window_start)
        /\ MinuteOfYear(time_window_end.value) <= MinuteOfYear(time_window_start.value)

InvalidSubmission(req) ==
    \/ WindowNotAfter(req)
    \/ Len(req.damage_images) > MaxImagesPerClaim
    \/ req.incident_type \notin IncidentType
    \/ req.location_zone \notin LocationZone

\* C11: a submission whose window end is not after its start, or with more
\* than 5 images, or with a type or zone that is not enumerated, never reaches
\* submit_and_analyze_claim (no claim row, no embedding, fingerprint or
\* similarity work) and is answered with the validation failure 422
C11_InvalidSubmissionRejected ==
    (arg.op = "route" /\ InvalidSubmission(arg)) =>
        /\ inv[1] = Idle /\ pending[1] = NoRows
        /\ dbClaims = {} /\ dbFingerprints = {} /\ dbResults = {}
        /\ ~out.invoked
        /\ out.op = "route" => out.status = 422

\* C12: an invocation that was given no images ends in persisted unless the
\* store failed it, and the fingerprint it committed carries the placeholder
\* image embedding
C12_NoImagesCompletesWithPlaceholder ==
    \A i \in Invocations :
        (inv[i].pc \in Terminal /\ inv[i].image_files = <<>>) =>
            /\ inv[i].pc = "failed" => inv[i].error = "persistence"
            /\ inv[i].pc = "persisted" =>
                  \E f \in dbFingerprints :
                      /\ f.claim_id = inv[i].claim_id
                      /\ f.image_embedding = PlaceholderEmbedding

\* the stored fingerprints the call compares without an exception (they have
\* a row in claims and vectors of the lengths of the new claim's), the overall
\* similarity of one of them to the new claim, and the ids the call returns
ComparedRows ==
    {f \in arg.fpRows : /\ \E c \in StoredClaims : c.id = f.claim_id
                        /\ ~CompareRaises(f, QueryText, PlaceholderEmbedding)}

OverallOf(f) ==
    MatchRecord(f, ClaimById(StoredClaims, f.claim_id), QueryText,
                PlaceholderEmbedding, GenerateSpatialFingerprint("zone_a"),
                GenerateTemporalFingerprint(D1, W1start, W1end)).overall_similarity

AboveThreshold == {f \in ComparedRows : OverallOf(f) > MatchThreshold}

Reported == {out.result[k].fingerprint_id : k \in 1..Len(out.result)}

\* C13 as stated: a compared fingerprint is in the result if and only if its
\* overall similarity is strictly above 0.30
C13_ReportedIffAboveThreshold ==
    out.op = "find" =>
        \A f \in ComparedRows : f.id \in Reported <=> OverallOf(f) > MatchThreshold

\* C13, amended: a compared fingerprint is in the result only if its overall
\* similarity is strictly above 0.30 (one at exactly 0.30 or lower never is),
\* and every such fingerprint is in the result when no more than `limit` of
\* them are above 0.30
C13_ReportedAboveThreshold ==
    out.op = "find" =>
        /\ \A f \in ComparedRows : f.id \in Reported => OverallOf(f) > MatchThreshold
        /\ Cardinality(AboveThreshold) <= arg.limit =>
               \A f \in AboveThreshold : f.id \in Reported

\* a corpus with a fingerprint at exactly 0.30, left out, and one above, returned
C13_Witness ==
    /\ out.op = "find"
    /\ \E f \in ComparedRows : OverallOf(f) = MatchThreshold /\ f.id \notin Reported
    /\ \E f \in ComparedRows : OverallOf(f) > MatchThreshold /\ f.id \in Reported

\* the stored fingerprint an entry of the result was made from
RowOf(m) == CHOOSE f \in arg.fpRows : f.id = m.fingerprint_id

\* C14: the result is ordered by overall similarity, highest first, has at
\* most `limit` entries, leaves out no fingerprint above the threshold that
\* scores strictly higher than a returned one, and each entry carries the four
\* component scores and the matched claim's reference id, organization,
\* location zone, incident type and incident date
C14_RankedTopLimit ==
    out.op = "find" =>
        LET result == out.result
        IN  /\ Len(result) <= arg.limit
            /\ \A k \in 1..Len(result) : \A n \in 1..Len(result) :
                   k < n => result[k].overall_similarity >= result[n].overall_similarity
            /\ \A f \in AboveThreshold : \A k \in 1..Len(result) :
                   f.id \notin Reported => OverallOf(f) <= result[k].overall_similarity
            /\ \A k \in 1..Len(result) :
                   LET m == result[k]
                       f == RowOf(m)
                       claim == ClaimById(StoredClaims, f.claim_id)
                       name == UserById(claim.user_id).organization_name
                   IN  /\ m.text_similarity = CosineSimilarity(QueryText, f.text_embedding)
                       /\ m.image_similarity =
                              CosineSimilarity(PlaceholderEmbedding, f.image_embedding)
                       /\ m.spatial_similarity =
                              HammingDistance(GenerateSpatialFingerprint("zone_a"),
                                              f.spatial_fingerprint)
                       /\ m.temporal_similarity =
                              HammingDistance(GenerateTemporalFingerprint(D1, W1start, W1end),
                                              f.temporal_fingerprint)
                       /\ m.overall_similarity = OverallOf(f)
                       /\ m.claim_reference_id = claim.claim_reference_id
                       /\ m.organization_name = (IF name = "" THEN "Unknown" ELSE name)
                       /\ m.location_zone = claim.location_zone
                       /\ m.incident_type = claim.incident_type
                       /\ m.incident_date = claim.incident_date_approx

\* three fingerprints above the threshold and limit 2: the two highest are
\* returned, the higher first; the lowest, although scanned first, is left out
C14_Witness ==
    /\ out.op = "find" /\ arg.limit = 2 /\ Len(out.result) = 2
    /\ out.result[1].overall_similarity > out.result[2].overall_similarity
    /\ out.result[1].fingerprint_id < out.result[2].fingerprint_id
    /\ \E f \in AboveThreshold : f.id \notin Reported /\ f.id < out.result[1].fingerprint_id

\* the insurance companies whose claims are in the returned list, each
\* identified as Step 4 identifies the company of a submitter
MatchedCompanies ==
    { InsuranceCompanyId(UserById(ClaimById(StoredClaims, RowOf(out.result[k]).claim_id).user_id)) :
          k \in 1..Len(out.result) }

\* C15: when the returned matches were submitted by more than one
\* organization, the explanation of every tier carries the statement that
\* similar claims were found across several organizations
C15_CrossOrganizationStated ==
    (out.op = "find" /\ Cardinality(MatchedCompanies) > 1) =>
        \A l \in FraudRiskLevel : out.explanation[l].company_details = "warning"

\* the invocations that end in persisted in the step
Succeeding == {i \in Invocations : inv[i].pc # "persisted" /\ inv'[i].pc = "persisted"}

\* C16: a committed fingerprint is never updated or deleted (every committed
\* row stays in the table as it is and no second row takes its id or its
\* claim), a step in which no invocation succeeds leaves the table as it is,
\* and a succeeding invocation adds exactly one row, the fingerprint of its
\* own claim
C16_FingerprintsOnlyAdded ==
    /\ [](\A f \in dbFingerprints : \A g \in dbFingerprints :
              (f.id = g.id \/ f.claim_id = g.claim_id) => f = g)
    /\ [][/\ dbFingerprints \subseteq dbFingerprints'
          /\ Succeeding = {} => dbFingerprints' = dbFingerprints
          /\ \A i \in Succeeding :
                 /\ Cardinality(dbFingerprints' \ dbFingerprints) = 1
                 /\ \A f \in dbFingerprints' \ dbFingerprints :
                        f.claim_id = inv[i].claim_id /\ f.txn = i]_vars

\* two invocations have succeeded, the second after the first had committed,
\* and the table holds the fingerprint of each
C16_Witness ==
    /\ \A i \in Invocations : inv[i].pc = "persisted"
    /\ Cardinality(dbFingerprints) = 2
    /\ \E f \in dbFingerprints : \E g \in dbFingerprints : f.commit < g.commit

\* the positions at which two strings of equal length agree
Agreeing(h1, h2) == {k \in 1..Len(h1) : h1[k] = h2[k]}

\* C17: for two fingerprint strings of the same (non-zero) length the
\* structural similarity is the fraction of positions at which they agree,
\* so 1.0 for (h, h) and 0.0 when every position differs; for strings of
\* different lengths it is 0.0
C17_HammingIsAgreeingFraction ==
    out.op = "hamming" =>
        LET h1 == arg.hash1
            h2 == arg.hash2
        IN  /\ Len(h1) # Len(h2) => ~out.raised /\ out.result = 0
            /\ (Len(h1) = Len(h2) /\ Len(h1) > 0) =>
                   /\ ~out.raised
                   /\ out.result * Len(h1) = Cardinality(Agreeing(h1, h2)) * SimScale
                   /\ h1 = h2 => out.result = SimScale
                   /\ Agreeing(h1, h2) = {} => out.result = 0

\* two spatial fingerprints that agree at some of their 16 positions and
\* differ at the others
C17_Witness ==
    /\ out.op = "hamming" /\ Len(arg.hash1) = HashLen /\ Len(arg.hash2) = HashLen
    /\ Agreeing(arg.hash1, arg.hash2) # {}
    /\ Cardinality(Agreeing(arg.hash1, arg.hash2)) < HashLen
    /\ out.result > 0 /\ out.result < SimScale

\* what C18 says of one call: 0.0 when a vector has zero norm, otherwise
\* (cos + 1) / 2, which is within [0, 1] and is 1.0 for (v, v); where the
\* product of the norms is a whole number r the value is compared with
\* (cos + 1) / 2 exactly, up to the rounding of the model's unit
CosineAsClaimed ==
    LET n1 == Dot(arg.vec1.v, arg.vec1.v)
        n2 == Dot(arg.vec2.v, arg.vec2.v)
        r == ISqrt(n1 * n2)
        err == (2 * out.result - SimScale) * r - Dot(arg.vec1.v, arg.vec2.v) * SimScale
    IN  /\ ~out.raised
        /\ out.result >= 0 /\ out.result <= SimScale
        /\ (n1 = 0 \/ n2 = 0) => out.result = 0
        /\ (n1 # 0 /\ n2 # 0 /\ r * r = n1 * n2) => (err <= 2 * r /\ -err <= 2 * r)
        /\ (n1 # 0 /\ arg.vec1 = arg.vec2) => out.result = SimScale

C19_OverallMonotonic ==
    out.op = "overall" =>
        /\ out.result = 25 * arg.sims[1] + 35 * arg.sims[2] + 20 * arg.sims[3]
                            + 20 * arg.sims[4]
        /\ arg.higher >= arg.sims[arg.k] => out.replaced >= out.result

\* a component raised from 0.5 to 1.0 with the other three in between
C19_Witness ==
    /\ out.op = "overall" /\ arg.sims[arg.k] = 5000 /\ arg.higher = SimScale
    /\ \E n \in 1..4 : n # arg.k /\ arg.sims[n] = 5000
    /\ out.replaced > out.result

Capped(x, cap) == IF x > cap THEN cap ELSE x

\* C21: the severity score is within [0, 1] and is the sum, capped at 1.0, of
\* the description length / 1000 capped at 0.3, the image count / 10 capped
\* at 0.3 and the number of high-severity keywords / 5 capped at 0.4
C21_SeverityIsCappedSum ==
    out.op = "severity" =>
        /\ out.result >= 0 /\ out.result <= 1000
        /\ out.result =
               Capped(Capped(DescLen(arg.damage_description), 300)
                          + Capped(arg.image_count * 100, 300)
                          + Capped(DescKeywords(arg.damage_description) * 200, 400),
                      1000)

\* five keywords and six images: both contributions are cut by their caps,
\* the one of the 56 characters is not
C21_Witness ==
    /\ out.op = "severity"
    /\ DescKeywords(arg.damage_description) > 2 /\ arg.image_count > 3
    /\ DescLen(arg.damage_description) < 300
    /\ out.result = 756

\* C22: all committed fingerprints have image embeddings of one length and
\* text embeddings of one length, so that the vectors of a new claim have the
\* length of the stored vectors they are compared with
C22_FixedDimensionality ==
    \A f \in dbFingerprints : \A g \in dbFingerprints :
        /\ f.image_embedding.dim = g.image_embedding.dim
        /\ f.text_embedding.dim = g.text_embedding.dim

\* C23: the stored records that cannot be compared (a vector of another
\* length, no related claim) are skipped and nothing else changes: the call
\* returns, and returns what it returns for the corpus without those records
C23_FailingRecordsOnlySkipped ==
    out.op = "find" =>
        /\ \A k \in 1..Len(out.result) :
               \E f \in ComparedRows : f.id = out.result[k].fingerprint_id
        /\ out.result =
               FindSimilarIncidents(ComparedRows, StoredClaims, QueryText,
                                    PlaceholderEmbedding,
                                    GenerateSpatialFingerprint("zone_a"),
                                    GenerateTemporalFingerprint(D1, W1start, W1end),
                                    arg.limit)
        /\ Cardinality(AboveThreshold) <= arg.limit =>
               \A f \in AboveThreshold : f.id \in Reported

\* a corpus whose first scanned record cannot be compared and whose later
\* record is scored and returned
C23_Witness ==
    /\ out.op = "find"
    /\ \E f \in arg.fpRows \ ComparedRows : \E g \in ComparedRows :
           f.id < g.id /\ g.id \in Reported

-----------------------------------------------------------------------------
\* the increment of 1/100 that a condition of the heuristic contributes
Increment(applies, amount) == IF applies THEN amount ELSE 0

\* the sum of the increments that apply to the arguments of the call
IncrementSum ==
    Increment(arg.temporal_pattern_score > 7000, 30)
    + Increment(arg.spatial_cluster_score > 7000, 30)
    + Increment(arg.similar_count > 5, 20)
    + Increment(DescLen(arg.damage_description) < 50, 10)
    + Increment(DescLen(arg.damage_description) > 2000, 5)

\* C24: with at least one match the heuristic fallback's score is the sum of
\* the increments that apply (0.3 temporal score > 0.7, 0.3 spatial score >
\* 0.7, 0.2 more than 5 matches, 0.1 description under 50 characters or 0.05
\* over 2000), and the tier is LOW below 0.3, MEDIUM from 0.3, HIGH from 0.5,
\* CRITICAL from 0.75.
C24_FallbackScoreIsIncrementSum ==
    (out.op = "fallback" /\ arg.similar_count >= 1) =>
        /\ out.scored.fraud_risk_score = IncrementSum
        /\ IncrementSum < 30 => out.scored.fraud_risk_level = JStr("LOW")
        /\ (30 <= IncrementSum /\ IncrementSum < 50) =>
               out.scored.fraud_risk_level = JStr("MEDIUM")
        /\ (50 <= IncrementSum /\ IncrementSum < 75) =>
               out.scored.fraud_risk_level = JStr("HIGH")
        /\ IncrementSum >= 75 => out.scored.fraud_risk_level = JStr("CRITICAL")

\* the fallback ran for six matches, a temporal score just above 0.7, a spatial
\* score of exactly 0.7 and a description of 2001 characters: 0.3 + 0.2 + 0.05
C24_Witness ==
    /\ out.op = "fallback" /\ arg.similar_count = 6
    /\ arg.temporal_pattern_score = 7001 /\ arg.spatial_cluster_score = 7000
    /\ arg.damage_description = "L"
    /\ out.scored.fraud_risk_score = 55
    /\ out.scored.fraud_risk_level = JStr("HIGH")

-----------------------------------------------------------------------------
\* C25: the corpus read of an invocation contains only fingerprints committed
\* before that read: every match Step 5 hands back is a committed fingerprint,
\* none is a row another invocation has flushed and not yet committed. (No
\* invocation waits for another: two simultaneous duplicates can both read
\* before either commits and both end in persisted without a match, which is
\* the state C25_Witness describes.)
C25_ReadsOnlyCommitted ==
    [][\A i \in Invocations :
          (inv[i].pc = "fingerprinted" /\ inv'[i].pc = "matched") =>
              \A k \in 1..Len(inv'[i].similar_incidents) :
                  /\ \E f \in dbFingerprints :
                         /\ f.id = inv'[i].similar_incidents[k].fingerprint_id
                         /\ f.commit >= 1 /\ f.commit <= commits
                  /\ \A j \in Invocations : \A f \in pending[j].fingerprints :
                         f.id # inv'[i].similar_incidents[k].fingerprint_id]_vars

\* two duplicate submissions (same submitter, zone, date, window, description,
\* no image) were both submitted before any commit, both are persisted, their
\* fingerprints have an overall similarity of 1.0, and neither result has a
\* match
C25_Witness ==
    \E c1 \in dbClaims, c2 \in dbClaims :
        /\ c1.id # c2.id
        /\ c1.submitted_after = 0 /\ c2.submitted_after = 0
        /\ c1.user_id = c2.user_id
        /\ c1.location_zone = c2.location_zone
        /\ c1.incident_date_approx = c2.incident_date_approx
        /\ c1.incident_time_window_start = c2.incident_time_window_start
        /\ c1.incident_time_window_end = c2.incident_time_window_end
        /\ c1.damage_description = c2.damage_description
        /\ inv[c1.txn].pc = "persisted" /\ inv[c2.txn].pc = "persisted"
        /\ Overall(FingerprintOf(c1), FingerprintOf(c2)) = 1000000
        /\ ResultOf(c1).matched_fingerprint_count = 0
        /\ ResultOf(c2).matched_fingerprint_count = 0
        /\ inv[c1.txn].result.matched_incidents_count = 0
        /\ inv[c2.txn].result.matched_incidents_count = 0

-----------------------------------------------------------------------------
\* the four features of an incident date the claim names: day of week, month,
\* 4-hour bucket and day of month
Features(dt) == <<dt.dow, dt.mo, dt.h \div 4, dt.d>>

-----------------------------------------------------------------------------
-----------------------------------------------------------------------------
\* C28: when analyze_claim has reported a failure to its caller (any status
\* other than 200), the store holds no claim, fingerprint or analysis result
\* of that invocation: a claim is committed as processed only where the
\* analysis is returned to the caller.
C28_FailureReportedLeavesNothing ==
    (out.op = "route" /\ out.status \notin {0, 200}) =>
        \A r \in dbClaims \cup dbFingerprints \cup dbResults : r.txn # 1

-----------------------------------------------------------------------------
\* the fingerprint ids a committed FraudAnalysisResult stores: the top match
\* (0 stands for None) and those of its similarity breakdown
MatchedIds(r) ==
    {r.similarity_breakdown[k].fingerprint_id : k \in 1..Len(r.similarity_breakdown)}
        \cup ({r.matched_fingerprint_id} \ {0})

\* C29: the match list of a submission never contains the submission's own
\* fingerprint, and every matched fingerprint id of a committed
\* FraudAnalysisResult is the id of a committed fingerprint of another claim.
C29_NoSelfMatch ==
    /\ \A i \in Invocations : \A k \in 1..Len(inv[i].similar_incidents) :
           \A f \in pending[i].fingerprints :
               f.id # inv[i].similar_incidents[k].fingerprint_id
    /\ \A r \in dbResults : \A id \in MatchedIds(r) :
           /\ \E f \in dbFingerprints : f.id = id
           /\ \A f \in dbFingerprints : f.id = id => f.claim_id # r.claim_id

\* a persisted invocation committed a result that names the committed
\* fingerprint of an earlier claim as its top match, next to its own
\* fingerprint
C29_Witness ==
    \E r \in dbResults : \E f \in dbFingerprints : \E g \in dbFingerprints :
        /\ r.matched_fingerprint_id = f.id /\ f.claim_id # r.claim_id
        /\ f.id \in MatchedIds(r)
        /\ g.claim_id = r.claim_id /\ g.commit = r.commit /\ f.commit < r.commit
        /\ inv[r.txn].pc = "persisted"

-----------------------------------------------------------------------------
\* C30: no committed claim has is_processed false: a claim row that is only
\* flushed is in no committed state, and every committed claim is processed
\* and has exactly one committed fingerprint and exactly one committed
\* analysis result.
C30_CommittedClaimsProcessed ==
    /\ \A c \in dbClaims :
           /\ c.is_processed
           /\ Cardinality({f \in dbFingerprints : f.claim_id = c.id}) = 1
           /\ Cardinality({r \in dbResults : r.claim_id = c.id}) = 1
    /\ \A i \in Invocations : \A c \in pending[i].claims :
           /\ ~c.is_processed
           /\ \A d \in dbClaims : d.id # c.id

\* one invocation flushed its claim row, failed and was rolled back, the other
\* is persisted: the store holds one claim, processed, although two primary
\* keys were handed out
C30_Witness ==
    /\ Cardinality(dbClaims) = 1
    /\ \E i \in Invocations : inv[i].pc = "failed" /\ inv[i].claim_id # 0
    /\ \E c \in dbClaims : c.is_processed /\ inv[c.txn].pc = "persisted"
    /\ nextClaimId = 3

====
